---- MODULE Spec2Model ----
(***************************************************************************)
(* Registry control plane: the four mutating workflows of the registry     *)
(* service (publish, edit, single-version status change, all-versions      *)
(* status change) running as concurrent transactions over the Store.       *)
(*                                                                         *)
(* The service workflows are translated from                               *)
(* internal/service/registry_service.go.  The Store (transactions,         *)
(* advisory lock, row primitives) and the version comparator are not part  *)
(* of the available sources; they are modelled from their documented       *)
(* contracts and from the database tests.                                  *)
(***************************************************************************)
EXTENDS Integers, FiniteSets, Sequences, TLC

\* ------------------------------------------------------------------------
\* Bounds of the model
\* ------------------------------------------------------------------------
MaxOps == 4          \* workflows started in one behaviour, concurrent transactions
MaxSeqOps == 4       \* workflows started in one behaviour, one at a time
MaxTime == 1         \* largest clock value
MaxLimitOps == 3     \* publishes started in one behaviour at the version limit
MaxApiOps == 3       \* requests made in one behaviour through the API
MaxHttpOps == 4      \* requests made in one behaviour to the edit and status endpoints
MaxSyncOps == 3      \* mutating requests made in one behaviour between listings
MaxArgs == 4         \* command-line arguments of the publisher status command
MaxFaultOps == 3     \* requests made in one behaviour with a failing Store
MaxRaceOps == 3      \* requests made in one behaviour by two concurrent clients
MaxLiveOps == 3      \* workflows started in one behaviour under fair scheduling
MaxBulkOps == 4      \* workflows started in one behaviour on a name with many versions

\* ------------------------------------------------------------------------
\* Program constants
\* ------------------------------------------------------------------------
maxServerVersionsPerServer == 10000
ListLimit == 1000

\* ------------------------------------------------------------------------
\* Value domains
\* ------------------------------------------------------------------------
Names == {"A", "B"}
NameRank == [n \in Names |-> IF n = "A" THEN 1 ELSE 2]
Versions == {1, 2}
VersionsOf == [n \in Names |-> IF n = "A" THEN Versions ELSE {1}]
URLs == {"u"}
RemoteSets == SUBSET URLs
Tx == {"t1", "t2"}

StatusActive == "active"
StatusDeprecated == "deprecated"
StatusDeleted == "deleted"
ValidStatuses == {StatusActive, StatusDeprecated, StatusDeleted}
ReqStatuses == ValidStatuses \cup {"bogus"}

NoMsg == "nil"
Msgs == {"m"}
OptMsgs == Msgs \cup {NoMsg}

OK == "ok"
ErrNotFound == "ErrNotFound"
ErrInvalidVersion == "ErrInvalidVersion"
ErrMaxServersReached == "ErrMaxServersReached"
ErrRemoteURL == "ErrRemoteURLInUse"
ErrInvalidInput == "ErrInvalidInput"
ErrConflict == "ErrAlreadyExists"
ErrInternal == "ErrInternal"

\* HTTP responses of the handlers.
NoResponse == 0
StatusOK == 200
StatusBadRequest == 400
StatusUnauthorized == 401
StatusForbidden == 403
StatusNotFound == 404
StatusInternalServerError == 500

\* Messages of the transition validators.
ErrInvalidStatus == "Invalid status"
ErrActiveMessage == "status_message cannot be provided when setting status to active"
ErrNoChanges == "No changes to apply: status and message are already set"
ErrNoBulkChanges == "No changes to apply: all versions already have the requested status and message"
ErrUnauthorized == "Unauthorized"
ErrForbidden == "Forbidden"
ErrServerNotFound == "Server not found"
ErrVersionNotFound == "Server version not found"

\* Messages of the edit handler.
ErrRename == "Cannot rename server"
ErrVersionMismatch == "Version in request body must match URL path parameter"

\* The absent row (a nil *ServerResponse).
NoRow ==
  [name |-> "", version |-> 0, remotes |-> {}, status |-> "", msg |-> NoMsg,
   publishedAt |-> 0, statusChangedAt |-> 0, updatedAt |-> 0, isLatest |-> FALSE]

\* ------------------------------------------------------------------------
\* State
\* ------------------------------------------------------------------------
VARIABLES
  db,      \* committed rows of the servers table
  lock,    \* lock[name]: transactions holding the advisory lock of name
  tx,      \* tx[t]: the workflow running in transaction t: its position (pc),
           \* its inputs, the row it read at its start (currentServer), whether
           \* it has read or written the Store (touched), its uncommitted
           \* writes (wnames, wrows), the error it returns (result) and, for
           \* a direct call of the Store, the row it was given (meta); for
           \* an all-versions status request, the UpdatedCount of the
           \* response; for a listing, the filter (query), the limit and
           \* the rows returned (listing); for a listing followed page
           \* by page, the last nextCursor and the rows emitted so far;
           \* for a run of the publisher's status command, its arguments
           \* and whether it has read the token file and contacted the
           \* registry
  now,     \* the clock
  ops,     \* workflows started so far
  archived \* archived[name]: number of stored versions of name that are not
           \* listed in db: old active versions without remotes or message
           \* that are not latest and that no workflow of the behaviour
           \* names; their timestamps are not tracked, and workflows that
           \* write every version of a name run with archived versions only
           \* to set the status active without a message

\* ------------------------------------------------------------------------
\* Store: read primitives over a set of rows
\* ------------------------------------------------------------------------
RowsOf(rows, name) == {r \in rows : r.name = name}

RowLess(r1, r2) ==
  \/ NameRank[r1.name] < NameRank[r2.name]
  \/ r1.name = r2.name /\ r1.version < r2.version

\* A ServerFilter. Name and RemoteURL are NoFilter when nil; each other
\* pointer field is the set holding its value, empty when nil.
NoFilter == "*"
Nil == {}
ServerFilter(name, substringName, version, remoteURL, isLatest, updatedSince, includeDeleted) ==
  [name |-> name, substringName |-> substringName, version |-> version,
   remoteURL |-> remoteURL, isLatest |-> isLatest,
   updatedSince |-> updatedSince, includeDeleted |-> includeDeleted]

Filter(name, remoteURL, includeDeleted) ==
  ServerFilter(name, Nil, Nil, remoteURL, Nil, Nil, {includeDeleted})

NoQuery == ServerFilter(NoFilter, Nil, Nil, NoFilter, Nil, Nil, Nil)

\* Substring match on names, which are single letters here: the empty string
\* is part of every name, a letter only of itself.
Contains(name, sub) == sub = "" \/ sub = name

\* Variant: rows with status deleted are left out whatever the filter says.
Matches_neverDeleted(r, f) ==
  /\ f.name = NoFilter \/ r.name = f.name
  /\ \A sub \in f.substringName : Contains(r.name, sub)
  /\ \A v \in f.version : r.version = v
  /\ f.remoteURL = NoFilter \/ f.remoteURL \in r.remotes
  /\ \A b \in f.isLatest : r.isLatest = b
  /\ \A since \in f.updatedSince : r.updatedAt > since
  /\ r.status # StatusDeleted

Matches(r, f) ==
  /\ f.name = NoFilter \/ r.name = f.name
  /\ \A sub \in f.substringName : Contains(r.name, sub)
  /\ \A v \in f.version : r.version = v
  /\ f.remoteURL = NoFilter \/ f.remoteURL \in r.remotes
  /\ \A b \in f.isLatest : r.isLatest = b
  /\ \A since \in f.updatedSince : r.updatedAt > since
  /\ TRUE \in f.includeDeleted \/ r.status # StatusDeleted

\* The archived versions of name n that match filter f: they are active,
\* have no remotes, are not latest, are none of the versions a request names
\* and were last written before the behaviour starts.
ArchivedMatching(f, n) ==
  IF /\ f.name = NoFilter \/ f.name = n
     /\ \A sub \in f.substringName : Contains(n, sub)
     /\ f.version = Nil
     /\ f.remoteURL = NoFilter
     /\ TRUE \notin f.isLatest
     /\ f.updatedSince = Nil
    THEN archived[n] ELSE 0

\* The number of archived versions matching f that are listed before row r:
\* those of the names before r's and, being older, those of r's own name.
RECURSIVE ArchivedBefore(_, _, _)
ArchivedBefore(f, r, names) ==
  IF names = {} THEN 0
  ELSE LET n == CHOOSE x \in names : TRUE
       IN (IF NameRank[n] <= NameRank[r.name] THEN ArchivedMatching(f, n) ELSE 0)
            + ArchivedBefore(f, r, names \ {n})

\* First `limit` matching rows in (name, version) order, from the start;
\* the archived versions among them are not returned as rows.
ListServers(rows, f, limit) ==
  LET m == {r \in rows : Matches(r, f)}
  IN {r \in m : Cardinality({q \in m : RowLess(q, r)})
                   + ArchivedBefore(f, r, Names) < limit}

\* The cursor of a listing: the (name, version) of the last row emitted,
\* NoCursor for the empty string.
NoCursor == [name |-> "", version |-> 0]
CursorOf(r) == [name |-> r.name, version |-> r.version]

\* Variant: the cursor resumes after the name of the last row emitted.
After_nameOnly(r, cursor) ==
  cursor = NoCursor \/ NameRank[r.name] > NameRank[cursor.name]

After(r, cursor) ==
  \/ cursor = NoCursor
  \/ NameRank[r.name] > NameRank[cursor.name]
  \/ r.name = cursor.name /\ r.version > cursor.version

\* The first k rows of S in (name, version) order, as the page returned.
RECURSIVE FirstRows(_, _)
FirstRows(S, k) ==
  IF S = {} \/ k = 0 THEN <<>>
  ELSE LET m == CHOOSE r \in S : \A q \in S : ~RowLess(q, r)
       IN <<m>> \o FirstRows(S \ {m}, k - 1)

\* ListServers(filter, cursor, limit) on a table without archived versions:
\* the page and the next cursor, which is empty iff no further row exists.
ListServersPage(rows, f, cursor, limit) ==
  LET m == {r \in rows : Matches(r, f) /\ After(r, cursor)}
      page == FirstRows(m, limit)
  IN [servers |-> page,
      nextCursor |-> IF Cardinality(m) > Len(page)
                       THEN CursorOf(page[Len(page)]) ELSE NoCursor]

GetServerByNameAndVersion(rows, name, version, includeDeleted) ==
  LET m == {r \in rows : /\ r.name = name
                         /\ r.version = version
                         /\ (includeDeleted \/ r.status # StatusDeleted)}
  IN IF m = {} THEN NoRow ELSE CHOOSE r \in m : TRUE

CountServerVersions(rows, name) ==
  Cardinality(RowsOf(rows, name)) + archived[name]

CheckVersionExists(rows, name, version) ==
  \E r \in rows : r.name = name /\ r.version = version

GetCurrentLatestVersion(rows, name) ==
  LET m == {r \in RowsOf(rows, name) : r.isLatest}
  IN IF m = {} THEN NoRow ELSE CHOOSE r \in m : TRUE

\* ------------------------------------------------------------------------
\* Store: write primitives.  S = [db, view]: the committed table and the
\* table as the calling transaction sees it.  A write through the
\* transaction handle changes the view only; a write without a handle runs
\* in its own implicit transaction and is committed at once.
\* ------------------------------------------------------------------------
TxHandle == "tx"
NilHandle == "nil"

\* inView, inDb: the rows the write leaves in the view and, were it run
\* against the committed table, in the table.
Write(h, S, inView, inDb) ==
  IF h = TxHandle
    THEN [db |-> S.db, view |-> inView, result |-> OK]
    ELSE [db |-> inDb, view |-> inView, result |-> OK]

Fail(S, err) == [db |-> S.db, view |-> S.view, result |-> err]

UnmarkRows(rows, name) ==
  {IF r.name = name THEN [r EXCEPT !.isLatest = FALSE] ELSE r : r \in rows}

UnmarkAsLatest(h, S, name) ==
  Write(h, S, UnmarkRows(S.view, name), UnmarkRows(S.db, name))

\* The table constraint check_status_changed_at_after_published, which every
\* insert and update of a row must satisfy.
\* Variant: the constraint is not declared.
check_status_changed_at_after_published_dropped(r) == TRUE

check_status_changed_at_after_published(r) ==
  r.statusChangedAt >= r.publishedAt

CreateServer(h, S, row) ==
  IF CheckVersionExists(S.view, row.name, row.version) THEN Fail(S, ErrConflict)
  ELSE IF ~check_status_changed_at_after_published(row) THEN Fail(S, ErrInvalidInput)
  ELSE Write(h, S, S.view \cup {row}, S.db \cup {row})

\* Variant: the update of the descriptor also refreshes statusChangedAt.
UpdateRows_refreshesStatus(rows, name, version, remotes, t) ==
  {IF r.name = name /\ r.version = version
     THEN [r EXCEPT !.remotes = remotes, !.updatedAt = t, !.statusChangedAt = t]
     ELSE r : r \in rows}

UpdateRows(rows, name, version, remotes, t) ==
  {IF r.name = name /\ r.version = version
     THEN [r EXCEPT !.remotes = remotes, !.updatedAt = t]
     ELSE r : r \in rows}

UpdateServer(h, S, name, version, remotes, t) ==
  IF ~CheckVersionExists(S.view, name, version) THEN Fail(S, ErrNotFound)
  ELSE Write(h, S, UpdateRows(S.view, name, version, remotes, t),
                   UpdateRows(S.db, name, version, remotes, t))

\* Variant: statusChangedAt is refreshed by every status write.
SetStatusRow_alwaysRefreshed(r, status, msg, t) ==
  [r EXCEPT !.status = status,
            !.msg = msg,
            !.statusChangedAt = t,
            !.updatedAt = t]

SetStatusRow(r, status, msg, t) ==
  [r EXCEPT !.status = status,
            !.msg = msg,
            !.statusChangedAt = IF r.status # status THEN t ELSE @,
            !.updatedAt = t]

\* Variant: the status is written on every version of the name.
SetStatusRows_wholeName(rows, name, version, status, msg, t) ==
  {IF r.name = name THEN SetStatusRow(r, status, msg, t) ELSE r : r \in rows}

SetStatusRows(rows, name, version, status, msg, t) ==
  {IF r.name = name /\ r.version = version
     THEN SetStatusRow(r, status, msg, t)
     ELSE r : r \in rows}

SetServerStatus(h, S, name, version, status, msg, t) ==
  IF status \notin ValidStatuses THEN Fail(S, ErrInvalidInput)
  ELSE IF ~CheckVersionExists(S.view, name, version) THEN Fail(S, ErrNotFound)
  ELSE IF \E r \in SetStatusRows(S.view, name, version, status, msg, t) :
            ~check_status_changed_at_after_published(r)
    THEN Fail(S, ErrInvalidInput)
  ELSE Write(h, S, SetStatusRows(S.view, name, version, status, msg, t),
                   SetStatusRows(S.db, name, version, status, msg, t))

\* Variant: deleted versions are left out of the update.
SetAllStatusRows_skipsDeleted(rows, name, status, msg, t) ==
  {IF r.name = name /\ r.status # StatusDeleted
     THEN SetStatusRow(r, status, msg, t) ELSE r : r \in rows}

SetAllStatusRows(rows, name, status, msg, t) ==
  {IF r.name = name THEN SetStatusRow(r, status, msg, t) ELSE r : r \in rows}

SetAllVersionsStatus(h, S, name, status, msg, t) ==
  IF status \notin ValidStatuses THEN Fail(S, ErrInvalidInput)
  ELSE IF RowsOf(S.view, name) = {} THEN Fail(S, ErrNotFound)
  ELSE IF \E r \in SetAllStatusRows(S.view, name, status, msg, t) :
            ~check_status_changed_at_after_published(r)
    THEN Fail(S, ErrInvalidInput)
  ELSE Write(h, S, SetAllStatusRows(S.view, name, status, msg, t),
                   SetAllStatusRows(S.db, name, status, msg, t))

\* ------------------------------------------------------------------------
\* Version policy
\* ------------------------------------------------------------------------
Cmp(a, b) == IF a < b THEN -1 ELSE IF a > b THEN 1 ELSE 0

CompareVersions(version1, version2, timestamp1, timestamp2) ==
  IF version1 # version2 THEN Cmp(version1, version2)
  ELSE Cmp(timestamp1, timestamp2)

\* ------------------------------------------------------------------------
\* Registry service: the steps of the workflows, as functions of the
\* Store state S = [db, view] seen by the transaction
\* ------------------------------------------------------------------------

\* OK when no server of a different name is listed for any of the URLs.
\* Variant: the URL listing includes deleted versions.
validateNoDuplicateRemoteURLs_includeDeleted(rows, name, remotes) ==
  IF \E u \in remotes :
       \E c \in ListServers(rows, Filter(NoFilter, u, TRUE), ListLimit) :
         c.name # name
    THEN ErrRemoteURL
    ELSE OK

\* Variant: any listed row conflicts, whatever its name.
validateNoDuplicateRemoteURLs_anyName(rows, name, remotes) ==
  IF \E u \in remotes :
       ListServers(rows, Filter(NoFilter, u, FALSE), ListLimit) # {}
    THEN ErrRemoteURL
    ELSE OK

validateNoDuplicateRemoteURLs(rows, name, remotes) ==
  IF \E u \in remotes :
       \E c \in ListServers(rows, Filter(NoFilter, u, FALSE), ListLimit) :
         c.name # name
    THEN ErrRemoteURL
    ELSE OK

\* Variant: the comparison with the limit is off by one.
versionLimitReached_offByOne(rows, name) ==
  CountServerVersions(rows, name) > maxServerVersionsPerServer

versionLimitReached(rows, name) ==
  CountServerVersions(rows, name) >= maxServerVersionsPerServer

\* Variant: the duplicate-version check is left out.
versionExists_unchecked(rows, name, version) == FALSE

versionExists(rows, name, version) == CheckVersionExists(rows, name, version)

\* Variant: every published version is marked latest.
isNewLatest_always(currentLatest, version, publishTime) == TRUE

isNewLatest(currentLatest, version, publishTime) ==
  IF currentLatest = NoRow THEN TRUE
  ELSE CompareVersions(version, currentLatest.version,
                       publishTime, currentLatest.publishedAt) > 0

\* Variant: the old latest version is never unmarked.
unmarkOldLatest_skipped(S, name, newLatest, currentLatest) == Fail(S, OK)

\* Variant: the unmark runs outside the transaction (nil handle).
unmarkOldLatest_noTx(S, name, newLatest, currentLatest) ==
  IF newLatest /\ currentLatest # NoRow
    THEN UnmarkAsLatest(NilHandle, S, name)
    ELSE Fail(S, OK)

unmarkOldLatest(S, name, newLatest, currentLatest) ==
  IF newLatest /\ currentLatest # NoRow
    THEN UnmarkAsLatest(TxHandle, S, name)
    ELSE Fail(S, OK)

\* Variant: UpdatedAt is left at the zero time.
newServerRow_noUpdatedAt(name, version, remotes, publishTime, newLatest) ==
  [name |-> name, version |-> version, remotes |-> remotes,
   status |-> StatusActive, msg |-> NoMsg,
   publishedAt |-> publishTime, statusChangedAt |-> publishTime,
   updatedAt |-> 0, isLatest |-> newLatest]

newServerRow(name, version, remotes, publishTime, newLatest) ==
  [name |-> name, version |-> version, remotes |-> remotes,
   status |-> StatusActive, msg |-> NoMsg,
   publishedAt |-> publishTime, statusChangedAt |-> publishTime,
   updatedAt |-> publishTime, isLatest |-> newLatest]

\* createServerInTransaction after the lock is held.  storeErr: the final
\* insert fails with a storage error.
createServerBody(S, name, version, remotes, publishTime, storeErr) ==
  IF validateNoDuplicateRemoteURLs(S.view, name, remotes) # OK
    THEN Fail(S, ErrRemoteURL)
  ELSE IF versionLimitReached(S.view, name) THEN Fail(S, ErrMaxServersReached)
  ELSE IF versionExists(S.view, name, version) THEN Fail(S, ErrInvalidVersion)
  ELSE
    LET currentLatest == GetCurrentLatestVersion(S.view, name)
        newLatest == isNewLatest(currentLatest, version, publishTime)
        S1 == unmarkOldLatest(S, name, newLatest, currentLatest)
    IN IF storeErr THEN Fail(S1, ErrInternal)
       ELSE CreateServer(TxHandle, S1,
                         newServerRow(name, version, remotes, publishTime, newLatest))

\* An optional *StatusChangeRequest.
NoStatusChange == [present |-> FALSE, newStatus |-> "", msg |-> NoMsg]
StatusChange(st, m) == [present |-> TRUE, newStatus |-> st, msg |-> m]
StatusChanges == {StatusChange(st, m) : st \in ReqStatuses, m \in OptMsgs}

\* updateServerInTransaction after the lock is held.
updateServerBody(S, name, version, remotes, statusChange, t) ==
  IF validateNoDuplicateRemoteURLs(S.view, name, remotes) # OK
    THEN Fail(S, ErrRemoteURL)
  ELSE
    LET S1 == UpdateServer(TxHandle, S, name, version, remotes, t)
    IN IF S1.result # OK THEN S1
       ELSE IF statusChange.present
         THEN SetServerStatus(TxHandle, S1, name, version,
                              statusChange.newStatus, statusChange.msg, t)
         ELSE S1

needsRemoteCheck(currentServer, newStatus) ==
  newStatus = StatusActive /\ currentServer.status = StatusDeleted

\* Variant: a change to deleted also unmarks the latest version of the name.
updateServerStatusBody_unmarksDeleted(S, currentServer, name, version, statusChange, t) ==
  IF /\ needsRemoteCheck(currentServer, statusChange.newStatus)
     /\ validateNoDuplicateRemoteURLs(S.view, currentServer.name,
                                      currentServer.remotes) # OK
    THEN Fail(S, ErrRemoteURL)
    ELSE SetServerStatus(TxHandle,
                         IF statusChange.newStatus = StatusDeleted
                           THEN UnmarkAsLatest(TxHandle, S, name) ELSE S,
                         name, version,
                         statusChange.newStatus, statusChange.msg, t)

\* updateServerStatusInTransaction after the lock is held; currentServer is
\* the row read at the start of the workflow.
updateServerStatusBody(S, currentServer, name, version, statusChange, t) ==
  IF /\ needsRemoteCheck(currentServer, statusChange.newStatus)
     /\ validateNoDuplicateRemoteURLs(S.view, currentServer.name,
                                      currentServer.remotes) # OK
    THEN Fail(S, ErrRemoteURL)
    ELSE SetServerStatus(TxHandle, S, name, version,
                         statusChange.newStatus, statusChange.msg, t)

\* updateAllVersionsStatusInTransaction after the lock is held.
updateAllVersionsStatusBody(S, name, statusChange, t) ==
  IF /\ statusChange.newStatus = StatusActive
     /\ \E v \in ListServers(S.view, Filter(name, NoFilter, TRUE), ListLimit) :
          /\ v.status = StatusDeleted
          /\ validateNoDuplicateRemoteURLs(S.view, v.name, v.remotes) # OK
    THEN Fail(S, ErrRemoteURL)
    ELSE SetAllVersionsStatus(TxHandle, S, name,
                              statusChange.newStatus, statusChange.msg, t)

\* ------------------------------------------------------------------------
\* Transactions
\* ------------------------------------------------------------------------
vars == <<db, lock, tx, now, ops, archived>>

Idle ==
  [pc |-> "idle", op |-> "none", name |-> "", version |-> 0,
   remotes |-> {}, statusChange |-> NoStatusChange, currentServer |-> NoRow,
   publishTime |-> 0, touched |-> FALSE,
   wnames |-> {}, wrows |-> {}, result |-> OK,
   body |-> [status |-> "", msg |-> NoMsg], http |-> NoResponse,
   meta |-> NoRow, updatedCount |-> 0,
   query |-> NoQuery, limit |-> 0, listing |-> {},
   cursor |-> NoCursor, emitted |-> <<>>,
   args |-> <<>>, tokenRead |-> FALSE, contacted |-> FALSE]

\* The table as transaction t sees it: committed rows, overridden by t's
\* own uncommitted writes.
View(t) == {r \in db : r.name \notin tx[t].wnames} \cup tx[t].wrows

Written(old, new) == {r.name : r \in (old \ new) \cup (new \ old)}

\* tx[t] after a body step that turned the view into out.view
AfterBody(t, out) ==
  LET w == tx[t].wnames \cup Written(View(t), out.view)
  IN [tx[t] EXCEPT !.pc = "finish", !.touched = TRUE, !.result = out.result,
                   !.wnames = w, !.wrows = {r \in out.view : r.name \in w}]

Init ==
  /\ db = {}
  /\ lock = [n \in Names |-> {}]
  /\ tx = [t \in Tx |-> Idle]
  /\ now = 0
  /\ ops = 0
  /\ archived = [n \in Names |-> 0]

\* ------------------------------------------------------------------------
\* Store: advisory lock and transaction end
\* ------------------------------------------------------------------------
\* Variant: the lock is granted whoever holds it.
LockFree_always(name, t) == TRUE

LockFree(name, t) == lock[name] \ {t} = {}

AcquirePublishLock(t, name) ==
  /\ LockFree(name, t)
  /\ lock' = [lock EXCEPT ![name] = @ \cup {t}]

\* InTransactionT: commit when the workflow returned no error, roll back
\* otherwise; either way the transaction's locks are released.
\* Variant: the advisory lock outlives the transaction.
Finish_keepsLock(t) ==
  /\ tx[t].pc = "finish"
  /\ db' = IF tx[t].result = OK THEN View(t) ELSE db
  /\ tx' = [tx EXCEPT ![t] = Idle]
  /\ UNCHANGED <<archived, lock, now, ops>>

Finish(t) ==
  /\ tx[t].pc = "finish"
  /\ db' = IF tx[t].result = OK THEN View(t) ELSE db
  /\ lock' = [n \in Names |-> lock[n] \ {t}]
  /\ tx' = [tx EXCEPT ![t] = Idle]
  /\ UNCHANGED <<archived, now, ops>>

\* ------------------------------------------------------------------------
\* CreateServer
\* ------------------------------------------------------------------------
CreateBegin(t, n, v, limit) ==
  /\ tx[t].pc = "idle"
  /\ ops < limit
  /\ tx' = [tx EXCEPT ![t] = [Idle EXCEPT !.pc = "lock", !.op = "create",
                                          !.name = n, !.version = v,
                                          !.publishTime = now]]
  /\ ops' = ops + 1
  /\ UNCHANGED <<archived, db, lock, now>>

CreateLock(t) ==
  /\ tx[t].pc = "lock" /\ tx[t].op = "create"
  /\ AcquirePublishLock(t, tx[t].name)
  /\ tx' = [tx EXCEPT ![t].pc = "body"]
  /\ UNCHANGED <<archived, db, now, ops>>

CreateBody(t, remotes, storeErr) ==
  /\ tx[t].pc = "body" /\ tx[t].op = "create"
  /\ LET out == createServerBody([db |-> db, view |-> View(t)],
                                 tx[t].name, tx[t].version, remotes,
                                 tx[t].publishTime, storeErr)
     IN /\ db' = out.db
        /\ tx' = [tx EXCEPT ![t] = [AfterBody(t, out) EXCEPT !.remotes = remotes]]
  /\ UNCHANGED <<archived, lock, now, ops>>

\* ------------------------------------------------------------------------
\* UpdateServer
\* ------------------------------------------------------------------------
\* The read of the current row that opens UpdateServer and UpdateServerStatus.
GetCurrent(t, op, n, v) ==
  LET cur == GetServerByNameAndVersion(View(t), n, v, TRUE)
      b == [Idle EXCEPT !.op = op, !.name = n, !.version = v,
                        !.touched = TRUE, !.currentServer = cur]
  IN IF cur = NoRow
       THEN [b EXCEPT !.pc = "finish", !.result = ErrNotFound]
       ELSE [b EXCEPT !.pc = "lock"]

UpdateGet(t, n, v, limit) ==
  /\ tx[t].pc = "idle"
  /\ ops < limit
  /\ tx' = [tx EXCEPT ![t] = GetCurrent(t, "update", n, v)]
  /\ ops' = ops + 1
  /\ UNCHANGED <<archived, db, lock, now>>

UpdateLock(t) ==
  /\ tx[t].pc = "lock" /\ tx[t].op = "update"
  /\ AcquirePublishLock(t, tx[t].name)
  /\ tx' = [tx EXCEPT ![t].pc = "body"]
  /\ UNCHANGED <<archived, db, now, ops>>

UpdateBody(t, remotes, sc) ==
  /\ tx[t].pc = "body" /\ tx[t].op = "update"
  /\ LET out == updateServerBody([db |-> db, view |-> View(t)],
                                 tx[t].name, tx[t].version, remotes, sc, now)
     IN /\ db' = out.db
        /\ tx' = [tx EXCEPT ![t] = [AfterBody(t, out) EXCEPT
                                      !.remotes = remotes, !.statusChange = sc]]
  /\ UNCHANGED <<archived, lock, now, ops>>

\* ------------------------------------------------------------------------
\* UpdateServerStatus
\* ------------------------------------------------------------------------
StatusGet(t, n, v, limit) ==
  /\ tx[t].pc = "idle"
  /\ ops < limit
  /\ tx' = [tx EXCEPT ![t] = GetCurrent(t, "status", n, v)]
  /\ ops' = ops + 1
  /\ UNCHANGED <<archived, db, lock, now>>

StatusLock(t) ==
  /\ tx[t].pc = "lock" /\ tx[t].op = "status"
  /\ AcquirePublishLock(t, tx[t].name)
  /\ tx' = [tx EXCEPT ![t].pc = "body"]
  /\ UNCHANGED <<archived, db, now, ops>>

StatusBody(t, sc) ==
  /\ tx[t].pc = "body" /\ tx[t].op = "status"
  /\ LET out == updateServerStatusBody([db |-> db, view |-> View(t)],
                                       tx[t].currentServer,
                                       tx[t].name, tx[t].version, sc, now)
     IN /\ db' = out.db
        /\ tx' = [tx EXCEPT ![t] = [AfterBody(t, out) EXCEPT !.statusChange = sc]]
  /\ UNCHANGED <<archived, lock, now, ops>>

\* ------------------------------------------------------------------------
\* UpdateAllVersionsStatus
\* ------------------------------------------------------------------------
AllBegin(t, n, limit) ==
  /\ tx[t].pc = "idle"
  /\ ops < limit
  /\ tx' = [tx EXCEPT ![t] = [Idle EXCEPT !.pc = "lock", !.op = "all",
                                          !.name = n]]
  /\ ops' = ops + 1
  /\ UNCHANGED <<archived, db, lock, now>>

AllLock(t) ==
  /\ tx[t].pc = "lock" /\ tx[t].op = "all"
  /\ AcquirePublishLock(t, tx[t].name)
  /\ tx' = [tx EXCEPT ![t].pc = "body"]
  /\ UNCHANGED <<archived, db, now, ops>>

AllBody(t, sc) ==
  /\ tx[t].pc = "body" /\ tx[t].op = "all"
  /\ LET out == updateAllVersionsStatusBody([db |-> db, view |-> View(t)],
                                            tx[t].name, sc, now)
     IN /\ db' = out.db
        /\ tx' = [tx EXCEPT ![t] = [AfterBody(t, out) EXCEPT !.statusChange = sc]]
  /\ UNCHANGED <<archived, lock, now, ops>>

\* ------------------------------------------------------------------------
\* Clock
\* ------------------------------------------------------------------------
Tick ==
  /\ now < MaxTime
  /\ now' = now + 1
  /\ UNCHANGED <<archived, db, lock, tx, ops>>

\* ------------------------------------------------------------------------
\* Status handlers (PATCH .../status): request checks
\* ------------------------------------------------------------------------
\* An UpdateServerStatusBody.
Body(st, m) == [status |-> st, msg |-> m]
Bodies == {Body(st, m) : st \in ReqStatuses, m \in OptMsgs}

\* The Authorization header: not a bearer header, a bearer token that does
\* not validate, or a valid token with the actions it grants on the server.
PermissionActionPublish == "publish"
PermissionActionEdit == "edit"
NoBearer == [bearer |-> FALSE, valid |-> FALSE, permissions |-> {}]
BadToken == [bearer |-> TRUE, valid |-> FALSE, permissions |-> {}]
Token(permissions) == [bearer |-> TRUE, valid |-> TRUE, permissions |-> permissions]
Credentials ==
  {NoBearer, BadToken}
    \cup {Token(p) : p \in SUBSET {PermissionActionPublish, PermissionActionEdit}}

HasPermission(action, permissions) == action \in permissions

\* A stored row always carries the registry metadata (Meta.Official).
HasOfficial(r) == r.status # ""

\* Variant: a message is allowed with the status active.
validateStatusTransition_messageAllowed(currentServer, newStatus, body) ==
  IF newStatus \notin ValidStatuses THEN ErrInvalidStatus
  ELSE IF ~HasOfficial(currentServer) THEN OK
  ELSE
    LET statusChanges == currentServer.status # newStatus
        messageChanges ==
          \/ (currentServer.msg = NoMsg) # (body.msg = NoMsg)
          \/ /\ currentServer.msg # NoMsg /\ body.msg # NoMsg
             /\ currentServer.msg # body.msg
    IN IF statusChanges \/ messageChanges THEN OK ELSE ErrNoChanges

\* Variant: a deleted version accepts no further status change.
validateStatusTransition_deletedTerminal(currentServer, newStatus, body) ==
  IF newStatus \notin ValidStatuses THEN ErrInvalidStatus
  ELSE IF newStatus = StatusActive /\ body.msg # NoMsg THEN ErrActiveMessage
  ELSE IF ~HasOfficial(currentServer) THEN OK
  ELSE IF currentServer.status = StatusDeleted THEN ErrNoChanges
  ELSE
    LET statusChanges == currentServer.status # newStatus
        messageChanges ==
          \/ (currentServer.msg = NoMsg) # (body.msg = NoMsg)
          \/ /\ currentServer.msg # NoMsg /\ body.msg # NoMsg
             /\ currentServer.msg # body.msg
    IN IF statusChanges \/ messageChanges THEN OK ELSE ErrNoChanges

\* Variant: messages are compared by value only, not by presence.
validateStatusTransition_valueOnly(currentServer, newStatus, body) ==
  IF newStatus \notin ValidStatuses THEN ErrInvalidStatus
  ELSE IF newStatus = StatusActive /\ body.msg # NoMsg THEN ErrActiveMessage
  ELSE IF ~HasOfficial(currentServer) THEN OK
  ELSE
    LET statusChanges == currentServer.status # newStatus
        messageChanges ==
          /\ currentServer.msg # NoMsg /\ body.msg # NoMsg
          /\ currentServer.msg # body.msg
    IN IF statusChanges \/ messageChanges THEN OK ELSE ErrNoChanges

validateStatusTransition(currentServer, newStatus, body) ==
  IF newStatus \notin ValidStatuses THEN ErrInvalidStatus
  ELSE IF newStatus = StatusActive /\ body.msg # NoMsg THEN ErrActiveMessage
  ELSE IF ~HasOfficial(currentServer) THEN OK
  ELSE
    LET statusChanges == currentServer.status # newStatus
        messageChanges ==
          \/ (currentServer.msg = NoMsg) # (body.msg = NoMsg)
          \/ /\ currentServer.msg # NoMsg /\ body.msg # NoMsg
             /\ currentServer.msg # body.msg
    IN IF statusChanges \/ messageChanges THEN OK ELSE ErrNoChanges

validateBulkStatusTransition(versions, newStatus, body) ==
  IF versions = {} THEN OK
  ELSE IF \E version \in versions :
            validateStatusTransition(version, newStatus, body) = OK
    THEN OK
    ELSE ErrNoBulkChanges

\* Variant: the message of the body is never copied into the request.
buildStatusChangeRequestFromBody_noMessage(body) ==
  StatusChange(body.status, NoMsg)

buildStatusChangeRequestFromBody(body) ==
  StatusChange(body.status,
               IF body.status # StatusActive THEN body.msg ELSE NoMsg)

\* Store reads made by the handlers, outside any transaction.
GetServerByName(rows, name, includeDeleted) ==
  LET m == {r \in RowsOf(rows, name) :
              r.isLatest /\ (includeDeleted \/ r.status # StatusDeleted)}
  IN IF m = {} THEN NoRow ELSE CHOOSE r \in m : TRUE

GetAllVersionsByServerName(rows, name, includeDeleted) ==
  {r \in RowsOf(rows, name) : includeDeleted \/ r.status # StatusDeleted}

Response(http, err) == [http |-> http, err |-> err]

\* Variant: the publish permission is required.
statusRequestChecks_publishOnly(rows, name, version, body, cred) ==
  IF ~cred.bearer \/ ~cred.valid THEN Response(StatusUnauthorized, ErrUnauthorized)
  ELSE
    LET currentServer == GetServerByNameAndVersion(rows, name, version, TRUE)
        v == validateStatusTransition(currentServer, body.status, body)
    IN IF currentServer = NoRow THEN Response(StatusNotFound, ErrVersionNotFound)
       ELSE IF ~HasPermission(PermissionActionPublish, cred.permissions)
         THEN Response(StatusForbidden, ErrForbidden)
       ELSE IF v # OK THEN Response(StatusBadRequest, v)
       ELSE Response(StatusOK, OK)

\* The status handler up to the call of the service.
statusRequestChecks(rows, name, version, body, cred) ==
  IF ~cred.bearer \/ ~cred.valid THEN Response(StatusUnauthorized, ErrUnauthorized)
  ELSE
    LET currentServer == GetServerByNameAndVersion(rows, name, version, TRUE)
        v == validateStatusTransition(currentServer, body.status, body)
    IN IF currentServer = NoRow THEN Response(StatusNotFound, ErrVersionNotFound)
       ELSE IF /\ ~HasPermission(PermissionActionPublish, cred.permissions)
               /\ ~HasPermission(PermissionActionEdit, cred.permissions)
         THEN Response(StatusForbidden, ErrForbidden)
       ELSE IF v # OK THEN Response(StatusBadRequest, v)
       ELSE Response(StatusOK, OK)

\* Variant: the server is not looked up before the permission check.
allVersionsRequestChecks_noLookup(rows, name, body, cred) ==
  IF ~cred.bearer \/ ~cred.valid THEN Response(StatusUnauthorized, ErrUnauthorized)
  ELSE
    LET allVersions == GetAllVersionsByServerName(rows, name, TRUE)
        v == validateBulkStatusTransition(allVersions, body.status, body)
    IN IF /\ ~HasPermission(PermissionActionPublish, cred.permissions)
          /\ ~HasPermission(PermissionActionEdit, cred.permissions)
         THEN Response(StatusForbidden, ErrForbidden)
       ELSE IF v # OK THEN Response(StatusBadRequest, v)
       ELSE Response(StatusOK, OK)

\* The all-versions status handler up to the call of the service.
allVersionsRequestChecks(rows, name, body, cred) ==
  IF ~cred.bearer \/ ~cred.valid THEN Response(StatusUnauthorized, ErrUnauthorized)
  ELSE
    LET currentServer == GetServerByName(rows, name, TRUE)
        allVersions == GetAllVersionsByServerName(rows, name, TRUE)
        v == validateBulkStatusTransition(allVersions, body.status, body)
    IN IF currentServer = NoRow THEN Response(StatusNotFound, ErrServerNotFound)
       ELSE IF /\ ~HasPermission(PermissionActionPublish, cred.permissions)
               /\ ~HasPermission(PermissionActionEdit, cred.permissions)
         THEN Response(StatusForbidden, ErrForbidden)
       ELSE IF v # OK THEN Response(StatusBadRequest, v)
       ELSE Response(StatusOK, OK)

\* The response to the result of the service call.
serviceResponse(result) ==
  IF result = OK THEN StatusOK
  ELSE IF result = ErrNotFound THEN StatusNotFound
  ELSE StatusBadRequest

\* ------------------------------------------------------------------------
\* Status handlers: steps
\* ------------------------------------------------------------------------
\* A request that passed the checks goes on to the service at position pc.
AfterChecks(resp, op, pc, n, v, body) ==
  IF resp.http # StatusOK
    THEN [Idle EXCEPT !.pc = "finish", !.op = op, !.name = n, !.version = v,
                      !.body = body, !.result = resp.err, !.http = resp.http]
    ELSE [Idle EXCEPT !.pc = pc, !.op = op, !.name = n, !.version = v,
                      !.body = body,
                      !.statusChange = buildStatusChangeRequestFromBody(body)]

PatchStatusCheck(t, n, v, body, cred, limit) ==
  /\ tx[t].pc = "idle"
  /\ ops < limit
  /\ tx' = [tx EXCEPT ![t] =
             AfterChecks(statusRequestChecks(db, n, v, body, cred),
                         "patch", "call", n, v, body)]
  /\ ops' = ops + 1
  /\ UNCHANGED <<archived, db, lock, now>>

\* UpdateServerStatus, called by the handler: the read that opens it.
PatchStatusGet(t) ==
  /\ tx[t].pc = "call" /\ tx[t].op = "patch"
  /\ LET cur == GetServerByNameAndVersion(View(t), tx[t].name, tx[t].version, TRUE)
     IN tx' = [tx EXCEPT ![t] =
                IF cur = NoRow
                  THEN [tx[t] EXCEPT !.pc = "finish", !.touched = TRUE,
                                     !.result = ErrNotFound,
                                     !.http = serviceResponse(ErrNotFound)]
                  ELSE [tx[t] EXCEPT !.pc = "lock", !.touched = TRUE,
                                     !.currentServer = cur]]
  /\ UNCHANGED <<archived, db, lock, now, ops>>

PatchStatusLock(t) ==
  /\ tx[t].pc = "lock" /\ tx[t].op = "patch"
  /\ AcquirePublishLock(t, tx[t].name)
  /\ tx' = [tx EXCEPT ![t].pc = "body"]
  /\ UNCHANGED <<archived, db, now, ops>>

PatchStatusBody(t) ==
  /\ tx[t].pc = "body" /\ tx[t].op = "patch"
  /\ LET out == updateServerStatusBody([db |-> db, view |-> View(t)],
                                       tx[t].currentServer, tx[t].name,
                                       tx[t].version, tx[t].statusChange, now)
     IN /\ db' = out.db
        /\ tx' = [tx EXCEPT ![t] = [AfterBody(t, out) EXCEPT
                                      !.http = serviceResponse(out.result)]]
  /\ UNCHANGED <<archived, lock, now, ops>>

PatchAllCheck(t, n, body, cred, limit) ==
  /\ tx[t].pc = "idle"
  /\ ops < limit
  /\ tx' = [tx EXCEPT ![t] =
             AfterChecks(allVersionsRequestChecks(db, n, body, cred),
                         "patchall", "lock", n, 0, body)]
  /\ ops' = ops + 1
  /\ UNCHANGED <<archived, db, lock, now>>

PatchAllLock(t) ==
  /\ tx[t].pc = "lock" /\ tx[t].op = "patchall"
  /\ AcquirePublishLock(t, tx[t].name)
  /\ tx' = [tx EXCEPT ![t].pc = "body"]
  /\ UNCHANGED <<archived, db, now, ops>>

\* The rows SetAllVersionsStatus returns: every row it updated.
updatedServers(out, name) ==
  IF out.result = OK THEN RowsOf(out.view, name) ELSE {}

PatchAllBody(t) ==
  /\ tx[t].pc = "body" /\ tx[t].op = "patchall"
  /\ LET out == updateAllVersionsStatusBody([db |-> db, view |-> View(t)],
                                            tx[t].name, tx[t].statusChange, now)
     IN /\ db' = out.db
        /\ tx' = [tx EXCEPT ![t] = [AfterBody(t, out) EXCEPT
                                      !.http = serviceResponse(out.result),
                                      !.updatedCount =
                                        Cardinality(updatedServers(out, tx[t].name))]]
  /\ UNCHANGED <<archived, lock, now, ops>>

\* ------------------------------------------------------------------------
\* Edit handler (PUT /servers/{name}/versions/{version})
\* ------------------------------------------------------------------------
\* The ServerJSON of a request body: the name and version it carries and its
\* remotes.
Descriptor(n, v, remotes) ==
  [NoRow EXCEPT !.name = n, !.version = v, !.remotes = remotes]
Descriptors ==
  {Descriptor(n, v, remotes) : n \in Names, v \in Versions, remotes \in RemoteSets}

\* Variant: the name and version of the body are not compared with the path.
editRequestChecks_renameAllowed(rows, name, version, desc, cred) ==
  IF ~cred.bearer \/ ~cred.valid THEN Response(StatusUnauthorized, ErrUnauthorized)
  ELSE
    LET currentServer == GetServerByNameAndVersion(rows, name, version, TRUE)
    IN IF currentServer = NoRow THEN Response(StatusNotFound, ErrServerNotFound)
       ELSE IF ~HasPermission(PermissionActionEdit, cred.permissions)
         THEN Response(StatusForbidden, ErrForbidden)
       ELSE Response(StatusOK, OK)

\* The edit handler up to the call of the service.
editRequestChecks(rows, name, version, desc, cred) ==
  IF ~cred.bearer \/ ~cred.valid THEN Response(StatusUnauthorized, ErrUnauthorized)
  ELSE
    LET currentServer == GetServerByNameAndVersion(rows, name, version, TRUE)
    IN IF currentServer = NoRow THEN Response(StatusNotFound, ErrServerNotFound)
       ELSE IF ~HasPermission(PermissionActionEdit, cred.permissions)
         THEN Response(StatusForbidden, ErrForbidden)
       ELSE IF currentServer.name # desc.name
         THEN Response(StatusBadRequest, ErrRename)
       ELSE IF version # desc.version
         THEN Response(StatusBadRequest, ErrVersionMismatch)
       ELSE Response(StatusOK, OK)

EditCheck(t, n, v, desc, cred, limit) ==
  /\ tx[t].pc = "idle"
  /\ ops < limit
  /\ LET resp == editRequestChecks(db, n, v, desc, cred)
         b == [Idle EXCEPT !.op = "edit", !.name = n, !.version = v, !.meta = desc]
     IN tx' = [tx EXCEPT ![t] =
                IF resp.http # StatusOK
                  THEN [b EXCEPT !.pc = "finish", !.result = resp.err,
                                 !.http = resp.http]
                  ELSE [b EXCEPT !.pc = "call"]]
  /\ ops' = ops + 1
  /\ UNCHANGED <<archived, db, lock, now>>

\* UpdateServer, called by the handler with the body and no status change:
\* the read that opens it.
EditGet(t) ==
  /\ tx[t].pc = "call" /\ tx[t].op = "edit"
  /\ LET cur == GetServerByNameAndVersion(View(t), tx[t].name, tx[t].version, TRUE)
     IN tx' = [tx EXCEPT ![t] =
                IF cur = NoRow
                  THEN [tx[t] EXCEPT !.pc = "finish", !.touched = TRUE,
                                     !.result = ErrNotFound,
                                     !.http = serviceResponse(ErrNotFound)]
                  ELSE [tx[t] EXCEPT !.pc = "lock", !.touched = TRUE,
                                     !.currentServer = cur]]
  /\ UNCHANGED <<archived, db, lock, now, ops>>

EditLock(t) ==
  /\ tx[t].pc = "lock" /\ tx[t].op = "edit"
  /\ AcquirePublishLock(t, tx[t].name)
  /\ tx' = [tx EXCEPT ![t].pc = "body"]
  /\ UNCHANGED <<archived, db, now, ops>>

EditBody(t) ==
  /\ tx[t].pc = "body" /\ tx[t].op = "edit"
  /\ LET out == updateServerBody([db |-> db, view |-> View(t)],
                                 tx[t].name, tx[t].version,
                                 tx[t].meta.remotes, NoStatusChange, now)
     IN /\ db' = out.db
        /\ tx' = [tx EXCEPT ![t] = [AfterBody(t, out) EXCEPT
                                      !.remotes = tx[t].meta.remotes,
                                      !.http = serviceResponse(out.result)]]
  /\ UNCHANGED <<archived, lock, now, ops>>

\* ------------------------------------------------------------------------
\* The transition validator applied to arbitrary inputs
\* ------------------------------------------------------------------------
\* Status messages given to the validator, the empty message included.
ValidatorMsgs == {"", "m", "k"}
OptValidatorMsgs == ValidatorMsgs \cup {NoMsg}

\* A stored version with the given status and message.
VersionWith(st, m) ==
  [newServerRow("A", 1, {}, 0, TRUE) EXCEPT !.status = st, !.msg = m]

ValidateInit ==
  /\ db = {}
  /\ lock = [n \in Names |-> {}]
  /\ now = 0
  /\ ops = 0
  /\ archived = [n \in Names |-> 0]
  /\ \E st \in ValidStatuses, m \in OptValidatorMsgs :
       \E newStatus \in ReqStatuses, newMessage \in OptValidatorMsgs :
         tx = [t \in Tx |->
                IF t = "t1"
                  THEN [Idle EXCEPT !.pc = "validate", !.op = "validate",
                                    !.currentServer = VersionWith(st, m),
                                    !.body = Body(newStatus, newMessage)]
                  ELSE Idle]

Validate(t) ==
  /\ tx[t].pc = "validate"
  /\ LET v == validateStatusTransition(tx[t].currentServer, tx[t].body.status,
                                       tx[t].body)
     IN tx' = [tx EXCEPT ![t].pc = "validated", ![t].result = v,
                         ![t].http = IF v = OK THEN NoResponse
                                               ELSE StatusBadRequest]
  /\ UNCHANGED <<archived, db, lock, now, ops>>

ValidateNext == \E t \in Tx : Validate(t)

SpecValidate == ValidateInit /\ [][ValidateNext]_vars

\* The bulk validator applied to arbitrary lists of versions: the stored
\* versions of name A, none included, and any request body.
VersionLists ==
  {rows \in SUBSET {[newServerRow("A", v, {}, 0, FALSE) EXCEPT !.status = st, !.msg = m] :
                      v \in Versions, st \in ValidStatuses, m \in OptMsgs} :
     \A r1, r2 \in rows : r1.version = r2.version => r1 = r2}

ValidateBulkInit ==
  /\ db \in VersionLists
  /\ lock = [n \in Names |-> {}]
  /\ now = 0
  /\ ops = 0
  /\ archived = [n \in Names |-> 0]
  /\ \E body \in Bodies :
       tx = [t \in Tx |->
              IF t = "t1"
                THEN [Idle EXCEPT !.pc = "validate", !.op = "validatebulk",
                                  !.name = "A", !.body = body]
                ELSE Idle]

ValidateBulk(t) ==
  /\ tx[t].pc = "validate"
  /\ LET v == validateBulkStatusTransition(
                GetAllVersionsByServerName(db, tx[t].name, TRUE),
                tx[t].body.status, tx[t].body)
     IN tx' = [tx EXCEPT ![t].pc = "validated", ![t].result = v,
                         ![t].http = IF v = OK THEN NoResponse
                                               ELSE StatusBadRequest]
  /\ UNCHANGED <<archived, db, lock, now, ops>>

ValidateBulkNext == \E t \in Tx : ValidateBulk(t)

SpecValidateBulk == ValidateBulkInit /\ [][ValidateBulkNext]_vars

\* ------------------------------------------------------------------------
\* Specifications
\* ------------------------------------------------------------------------
\* Requests of the concurrent specification: no status message.
PlainChanges == {StatusChange(st, NoMsg) : st \in ValidStatuses}
EditChanges == {NoStatusChange, StatusChange(StatusDeleted, NoMsg),
                StatusChange("bogus", NoMsg)}

\* Concurrent transactions.
Next ==
  \E t \in Tx :
    \/ \E n \in Names : \E v \in VersionsOf[n] : CreateBegin(t, n, v, MaxOps)
    \/ CreateLock(t)
    \/ \E remotes \in RemoteSets, storeErr \in BOOLEAN : CreateBody(t, remotes, storeErr)
    \/ \E n \in Names : \E v \in VersionsOf[n] : UpdateGet(t, n, v, MaxOps)
    \/ UpdateLock(t)
    \/ \E remotes \in RemoteSets, sc \in EditChanges : UpdateBody(t, remotes, sc)
    \/ \E n \in Names : \E v \in VersionsOf[n] : StatusGet(t, n, v, MaxOps)
    \/ StatusLock(t)
    \/ \E sc \in PlainChanges : StatusBody(t, sc)
    \/ \E n \in Names : AllBegin(t, n, MaxOps)
    \/ AllLock(t)
    \/ \E sc \in PlainChanges : AllBody(t, sc)
    \/ Finish(t)

Spec == Init /\ [][Next]_vars

\* One workflow at a time, with a running clock and status messages.
SeqNext ==
  \/ \E n \in Names : \E v \in VersionsOf[n] : CreateBegin("t1", n, v, MaxSeqOps)
  \/ CreateLock("t1")
  \/ \E remotes \in RemoteSets, storeErr \in BOOLEAN : CreateBody("t1", remotes, storeErr)
  \/ \E n \in Names : \E v \in VersionsOf[n] : UpdateGet("t1", n, v, MaxSeqOps)
  \/ UpdateLock("t1")
  \/ \E remotes \in RemoteSets, sc \in StatusChanges \cup {NoStatusChange} :
       UpdateBody("t1", remotes, sc)
  \/ \E n \in Names : \E v \in VersionsOf[n] : StatusGet("t1", n, v, MaxSeqOps)
  \/ StatusLock("t1")
  \/ \E sc \in StatusChanges : StatusBody("t1", sc)
  \/ \E n \in Names : AllBegin("t1", n, MaxSeqOps)
  \/ AllLock("t1")
  \/ \E sc \in StatusChanges : AllBody("t1", sc)
  \/ Finish("t1")
  \/ Tick

SpecSeq == Init /\ [][SeqNext]_vars

\* Requests of one client at a time through the API: publishes, edits
\* without a status change and status requests through the handlers, with a
\* running clock.
ApiNames == {"A"}

ApiNext ==
  \/ \E n \in ApiNames : \E v \in VersionsOf[n] : CreateBegin("t1", n, v, MaxApiOps)
  \/ CreateLock("t1")
  \/ \E remotes \in RemoteSets, storeErr \in BOOLEAN : CreateBody("t1", remotes, storeErr)
  \/ \E n \in ApiNames : \E v \in VersionsOf[n] : UpdateGet("t1", n, v, MaxApiOps)
  \/ UpdateLock("t1")
  \/ \E remotes \in RemoteSets : UpdateBody("t1", remotes, NoStatusChange)
  \/ \E n \in ApiNames : \E v \in VersionsOf[n] :
       \E body \in Bodies, cred \in Credentials :
         PatchStatusCheck("t1", n, v, body, cred, MaxApiOps)
  \/ PatchStatusGet("t1")
  \/ PatchStatusLock("t1")
  \/ PatchStatusBody("t1")
  \/ \E n \in ApiNames : \E body \in Bodies, cred \in Credentials :
       PatchAllCheck("t1", n, body, cred, MaxApiOps)
  \/ PatchAllLock("t1")
  \/ PatchAllBody("t1")
  \/ Finish("t1")
  \/ Tick

SpecApi == Init /\ [][ApiNext]_vars

\* Requests of one client at a time to the edit and status endpoints, after
\* publishes of two names.
HttpNext ==
  \/ \E n \in Names : \E v \in VersionsOf[n] : CreateBegin("t1", n, v, MaxHttpOps)
  \/ CreateLock("t1")
  \/ \E remotes \in RemoteSets : CreateBody("t1", remotes, FALSE)
  \/ \E n \in Names : \E v \in Versions :
       \E desc \in Descriptors, cred \in Credentials :
         EditCheck("t1", n, v, desc, cred, MaxHttpOps)
  \/ EditGet("t1")
  \/ EditLock("t1")
  \/ EditBody("t1")
  \/ \E n \in Names : \E v \in Versions :
       \E body \in Bodies, cred \in Credentials :
         PatchStatusCheck("t1", n, v, body, cred, MaxHttpOps)
  \/ PatchStatusGet("t1")
  \/ PatchStatusLock("t1")
  \/ PatchStatusBody("t1")
  \/ \E n \in Names : \E body \in Bodies, cred \in Credentials :
       PatchAllCheck("t1", n, body, cred, MaxHttpOps)
  \/ PatchAllLock("t1")
  \/ PatchAllBody("t1")
  \/ Finish("t1")

SpecHttp == Init /\ [][HttpNext]_vars

\* An all-versions restore of a name that has about as many versions as one
\* listing returns: version 1 of A is the newest and carries a remote URL,
\* and `fill` older versions are archived.
BulkFills == {ListLimit - 1, ListLimit}
BulkStatuses == {StatusActive}

BulkInit ==
  /\ db = {newServerRow("A", 1, URLs, 0, TRUE)}
  /\ lock = [n \in Names |-> {}]
  /\ tx = [t \in Tx |-> Idle]
  /\ now = 0
  /\ ops = 0
  /\ \E fill \in BulkFills : archived = [n \in Names |-> IF n = "A" THEN fill ELSE 0]

BulkNext ==
  \/ CreateBegin("t1", "B", 1, MaxBulkOps)
  \/ CreateLock("t1")
  \/ \E remotes \in RemoteSets : CreateBody("t1", remotes, FALSE)
  \/ StatusGet("t1", "A", 1, MaxBulkOps)
  \/ StatusLock("t1")
  \/ \E st \in ValidStatuses : StatusBody("t1", StatusChange(st, NoMsg))
  \/ AllBegin("t1", "A", MaxBulkOps)
  \/ AllLock("t1")
  \/ \E st \in BulkStatuses : AllBody("t1", StatusChange(st, NoMsg))
  \/ Finish("t1")
  \/ Tick

SpecBulk == BulkInit /\ [][BulkNext]_vars

\* Direct calls of the Store without a transaction handle, as the database
\* tests make them: inserts of rows with any registry metadata, and status
\* writes, with a running clock.
StoreRows ==
  {[name |-> "A", version |-> 1, remotes |-> {}, status |-> st, msg |-> NoMsg,
    publishedAt |-> p, statusChangedAt |-> c, updatedAt |-> p, isLatest |-> TRUE] :
     st \in ValidStatuses, p \in 0..MaxTime, c \in 0..MaxTime}

StoreCreateServer(t, row) ==
  /\ tx[t].pc = "idle"
  /\ LET out == CreateServer(NilHandle, [db |-> db, view |-> db], row)
     IN /\ db' = out.db
        /\ tx' = [tx EXCEPT ![t] = [Idle EXCEPT !.op = "insert", !.meta = row,
                                                !.result = out.result]]
  /\ UNCHANGED <<archived, lock, now, ops>>

StoreSetServerStatus(t, n, v, status) ==
  /\ tx[t].pc = "idle"
  /\ LET out == SetServerStatus(NilHandle, [db |-> db, view |-> db],
                                n, v, status, NoMsg, now)
     IN /\ db' = out.db
        /\ tx' = [tx EXCEPT ![t] = [Idle EXCEPT !.op = "setstatus", !.name = n,
                                                !.version = v,
                                                !.result = out.result]]
  /\ UNCHANGED <<archived, lock, now, ops>>

StoreNext ==
  \/ \E row \in StoreRows : StoreCreateServer("t1", row)
  \/ \E status \in ValidStatuses : StoreSetServerStatus("t1", "A", 1, status)
  \/ Tick

SpecStore == Init /\ [][StoreNext]_vars

\* Publishes of a name that already has nearly as many versions as the limit
\* allows: version 1 is the latest, and `fill` older versions are archived.
LimitFills == {maxServerVersionsPerServer - 2, maxServerVersionsPerServer - 1}
LimitVersions == Versions \cup {3}

LimitInit ==
  /\ db = {newServerRow("A", 1, {}, 0, TRUE)}
  /\ lock = [n \in Names |-> {}]
  /\ tx = [t \in Tx |-> Idle]
  /\ now = 0
  /\ ops = 0
  /\ \E fill \in LimitFills : archived = [n \in Names |-> IF n = "A" THEN fill ELSE 0]

LimitNext ==
  \E t \in Tx :
    \/ \E v \in LimitVersions : CreateBegin(t, "A", v, MaxLimitOps)
    \/ CreateLock(t)
    \/ \E remotes \in RemoteSets, storeErr \in BOOLEAN : CreateBody(t, remotes, storeErr)
    \/ Finish(t)

SpecLimit == LimitInit /\ [][LimitNext]_vars

\* ------------------------------------------------------------------------
\* Listings of a stored table: ListServers called directly, with the filters
\* of TestPostgreSQL_IncludeDeletedFilter and TestPostgreSQL_ListServers
\* ------------------------------------------------------------------------
ListPage == 10
ListKeys == {<<"A", 1>>, <<"A", 2>>, <<"B", 1>>}
Absent == "absent"
ListCells == {<<Absent, 0>>} \cup (ValidStatuses \X (0..MaxTime))

\* The table holding, for every key of c that is not absent, a version with
\* the status and updatedAt of c; the highest version of a name is its latest.
TableOf(c) ==
  {[name |-> k[1], version |-> k[2], remotes |-> {}, status |-> c[k][1],
    msg |-> NoMsg, publishedAt |-> 0, statusChangedAt |-> 0,
    updatedAt |-> c[k][2],
    isLatest |-> \A k2 \in ListKeys :
                   (k2[1] = k[1] /\ c[k2][1] # Absent) => k2[2] <= k[2]] :
     k \in {k1 \in ListKeys : c[k1][1] # Absent}}

ListTables == {TableOf(c) : c \in [ListKeys -> ListCells]}

ListFilters ==
  {ServerFilter(n, sub, v, NoFilter, l, since, d) :
     n \in {NoFilter, "A"}, sub \in {Nil, {"B"}}, v \in {Nil, {1}},
     l \in {Nil, {TRUE}}, since \in {Nil} \cup {{T} : T \in 0..MaxTime},
     d \in {Nil, {FALSE}, {TRUE}}}

ListInit ==
  /\ db \in ListTables
  /\ lock = [n \in Names |-> {}]
  /\ tx = [t \in Tx |-> Idle]
  /\ now = 0
  /\ ops = 0
  /\ archived = [n \in Names |-> 0]

StoreListServers(t, f, limit) ==
  /\ tx[t].pc = "idle"
  /\ tx' = [tx EXCEPT ![t] = [Idle EXCEPT !.pc = "finish", !.op = "list",
                                          !.query = f, !.limit = limit,
                                          !.listing = ListServers(db, f, limit)]]
  /\ UNCHANGED <<archived, db, lock, now, ops>>

ListNext ==
  \/ \E f \in ListFilters : StoreListServers("t1", f, ListPage)
  \/ Finish("t1")

SpecList == ListInit /\ [][ListNext]_vars

\* ------------------------------------------------------------------------
\* Incremental synchronisation: one client publishing, editing and changing
\* statuses over time, and listing through GET /servers
\* ------------------------------------------------------------------------

\* Variant: include_deleted keeps its default false with updated_since.
listFilter_noDefault(q) == q

\* The filter the listing endpoint builds from its query parameters:
\* include_deleted, when not given, is true if updated_since is given.
listFilter(q) ==
  [q EXCEPT !.includeDeleted =
     IF q.includeDeleted # Nil THEN q.includeDeleted
     ELSE IF q.updatedSince # Nil THEN {TRUE} ELSE Nil]

\* The query parameters updated_since and include_deleted of a listing.
SyncQueries ==
  {ServerFilter(NoFilter, Nil, Nil, NoFilter, Nil, since, d) :
     since \in {Nil} \cup {{T} : T \in 0..MaxTime},
     d \in {Nil, {FALSE}, {TRUE}}}

\* GET /servers: the rows the Store lists for the filter of the query.
ListRequest(t, q, limit) ==
  /\ tx[t].pc = "idle"
  /\ tx' = [tx EXCEPT ![t] =
             [Idle EXCEPT !.pc = "finish", !.op = "listreq", !.query = q,
                          !.limit = limit,
                          !.listing = ListServers(db, listFilter(q), limit),
                          !.http = StatusOK]]
  /\ UNCHANGED <<archived, db, lock, now, ops>>

SyncCredentials == {Token({PermissionActionPublish, PermissionActionEdit})}

SyncNext ==
  \/ \E n \in ApiNames : \E v \in VersionsOf[n] : CreateBegin("t1", n, v, MaxSyncOps)
  \/ CreateLock("t1")
  \/ \E remotes \in RemoteSets : CreateBody("t1", remotes, FALSE)
  \/ \E n \in ApiNames : \E v \in VersionsOf[n] :
       \E desc \in Descriptors, cred \in SyncCredentials :
         EditCheck("t1", n, v, desc, cred, MaxSyncOps)
  \/ EditGet("t1")
  \/ EditLock("t1")
  \/ EditBody("t1")
  \/ \E n \in ApiNames : \E v \in VersionsOf[n] :
       \E body \in Bodies, cred \in SyncCredentials :
         PatchStatusCheck("t1", n, v, body, cred, MaxSyncOps)
  \/ PatchStatusGet("t1")
  \/ PatchStatusLock("t1")
  \/ PatchStatusBody("t1")
  \/ \E n \in ApiNames : \E body \in Bodies, cred \in SyncCredentials :
       PatchAllCheck("t1", n, body, cred, MaxSyncOps)
  \/ PatchAllLock("t1")
  \/ PatchAllBody("t1")
  \/ \E q \in SyncQueries : ListRequest("t1", q, ListLimit)
  \/ Finish("t1")
  \/ Tick

SpecSync == Init /\ [][SyncNext]_vars

\* ------------------------------------------------------------------------
\* A listing followed from page to page by its nextCursor, with no mutation
\* between the pages (the loop of TestPostgreSQL_PerformanceScenarios)
\* ------------------------------------------------------------------------
PageSizes == {1, 2}
PageFilters ==
  {ServerFilter(NoFilter, Nil, Nil, NoFilter, l, Nil, d) :
     l \in {Nil, {TRUE}}, d \in {Nil, {TRUE}}}

\* One iteration of the loop: a page is requested with the cursor of the
\* previous one and appended; the loop ends when nextCursor is empty.
PageRequest(t, f, limit) ==
  /\ \/ tx[t].pc = "idle"
     \/ tx[t].pc = "paging" /\ f = tx[t].query /\ limit = tx[t].limit
  /\ LET out == ListServersPage(db, f, tx[t].cursor, limit)
     IN tx' = [tx EXCEPT ![t] =
                [Idle EXCEPT !.pc = IF out.nextCursor = NoCursor
                                      THEN "finish" ELSE "paging",
                             !.op = "page", !.query = f, !.limit = limit,
                             !.cursor = out.nextCursor,
                             !.emitted = tx[t].emitted \o out.servers]]
  /\ UNCHANGED <<archived, db, lock, now, ops>>

PageNext ==
  \/ \E f \in PageFilters, limit \in PageSizes : PageRequest("t1", f, limit)
  \/ Finish("t1")

SpecPage == ListInit /\ [][PageNext]_vars

\* ------------------------------------------------------------------------
\* Publisher: the status command (cmd/publisher/commands/status.go)
\* ------------------------------------------------------------------------
ErrStatusRequired == "--status flag is required (active, deprecated, or deleted)"
ErrCmdInvalidStatus == "invalid status. Must be one of: active, deprecated, deleted"
ErrNameRequired == "server name is required"
ErrVersionRequired == "version is required unless --all-versions flag is set"
ErrNotAuthenticated == "not authenticated. Run 'mcp-publisher login <method>' first"
ErrRequestFailed == "failed to update status"
ExitUsage == "exit status 2"

FlagStatus == "--status"
FlagAllVersions == "--all-versions"
ArgTokens == {FlagStatus, FlagAllVersions, "", "active", "bogus", "A", "1"}

RECURSIVE ArgListsOf(_)
ArgListsOf(n) ==
  IF n = 0 THEN {<<>>}
  ELSE LET shorter == ArgListsOf(n - 1)
       IN shorter \cup {Append(a, x) : a \in {b \in shorter : Len(b) = n - 1},
                                       x \in ArgTokens}
ArgLists == ArgListsOf(MaxArgs)

\* fs.Parse with flag.ExitOnError: flags are read up to the first argument
\* that is not a flag; --status takes the next argument as its value and
\* the process exits when there is none.
RECURSIVE ParseFlags(_, _)
ParseFlags(args, fs) ==
  IF args = <<>> THEN [fs EXCEPT !.rest = <<>>]
  ELSE IF args[1] = FlagStatus
    THEN IF Len(args) < 2 THEN [fs EXCEPT !.exit = TRUE]
         ELSE ParseFlags(SubSeq(args, 3, Len(args)), [fs EXCEPT !.status = args[2]])
  ELSE IF args[1] = FlagAllVersions
    THEN ParseFlags(Tail(args), [fs EXCEPT !.allVersions = TRUE])
  ELSE [fs EXCEPT !.rest = args]

NewFlagSet == [status |-> "", allVersions |-> FALSE, rest |-> <<>>, exit |-> FALSE]

\* Variant: the version is required with --all-versions too.
StatusCommandValidation_versionAlways(args) ==
  LET fs == ParseFlags(args, NewFlagSet)
  IN IF fs.exit THEN ExitUsage
     ELSE IF fs.status = "" THEN ErrStatusRequired
     ELSE IF fs.status \notin ValidStatuses THEN ErrCmdInvalidStatus
     ELSE IF Len(fs.rest) < 1 THEN ErrNameRequired
     ELSE IF Len(fs.rest) < 2 THEN ErrVersionRequired
     ELSE OK

\* StatusCommand up to the loading of the token: the error it returns, OK
\* when it goes on.
StatusCommandValidation(args) ==
  LET fs == ParseFlags(args, NewFlagSet)
  IN IF fs.exit THEN ExitUsage
     ELSE IF fs.status = "" THEN ErrStatusRequired
     ELSE IF fs.status \notin ValidStatuses THEN ErrCmdInvalidStatus
     ELSE IF Len(fs.rest) < 1 THEN ErrNameRequired
     ELSE IF ~fs.allVersions /\ Len(fs.rest) < 2 THEN ErrVersionRequired
     ELSE OK

CmdInit ==
  /\ db = {}
  /\ lock = [n \in Names |-> {}]
  /\ \E args \in ArgLists :
       tx = [t \in Tx |-> IF t = "t1"
                            THEN [Idle EXCEPT !.pc = "cmd", !.op = "statuscmd",
                                              !.args = args]
                            ELSE Idle]
  /\ now = 0
  /\ ops = 0
  /\ archived = [n \in Names |-> 0]

StatusCommandValidate(t) ==
  /\ tx[t].pc = "cmd"
  /\ LET err == StatusCommandValidation(tx[t].args)
     IN tx' = [tx EXCEPT ![t].pc = IF err = OK THEN "token" ELSE "done",
                         ![t].result = err]
  /\ UNCHANGED <<archived, db, lock, now, ops>>

\* The token file is read; the command stops when there is none.
StatusCommandLoadToken(t, exists) ==
  /\ tx[t].pc = "token"
  /\ tx' = [tx EXCEPT ![t].pc = IF exists THEN "send" ELSE "done",
                      ![t].tokenRead = TRUE,
                      ![t].result = IF exists THEN OK ELSE ErrNotAuthenticated]
  /\ UNCHANGED <<archived, db, lock, now, ops>>

\* updateVersionStatus / updateAllVersionsStatus: the registry is contacted.
StatusCommandSend(t, accepted) ==
  /\ tx[t].pc = "send"
  /\ tx' = [tx EXCEPT ![t].pc = "done", ![t].contacted = TRUE,
                      ![t].result = IF accepted THEN OK ELSE ErrRequestFailed]
  /\ UNCHANGED <<archived, db, lock, now, ops>>

CmdNext ==
  \/ StatusCommandValidate("t1")
  \/ \E exists \in BOOLEAN : StatusCommandLoadToken("t1", exists)
  \/ \E accepted \in BOOLEAN : StatusCommandSend("t1", accepted)

SpecCmd == CmdInit /\ [][CmdNext]_vars

\* ------------------------------------------------------------------------
\* Status requests against a Store whose write can fail with an internal
\* error
\* ------------------------------------------------------------------------

\* UpdateServerStatus returns the Store's error (registry_service.go line
\* 282) and the handler answers (part_002 lines 145-150).
PatchStatusStoreFails(t) ==
  /\ tx[t].pc = "body" /\ tx[t].op = "patch"
  /\ LET out == Fail([db |-> db, view |-> View(t)], ErrInternal)
     IN /\ db' = out.db
        /\ tx' = [tx EXCEPT ![t] = [AfterBody(t, out) EXCEPT
                                      !.http = serviceResponse(out.result)]]
  /\ UNCHANGED <<archived, lock, now, ops>>

\* UpdateAllVersionsStatus returns the Store's error (registry_service.go
\* line 322) and the handler answers (part_002 lines 259-264).
PatchAllStoreFails(t) ==
  /\ tx[t].pc = "body" /\ tx[t].op = "patchall"
  /\ LET out == Fail([db |-> db, view |-> View(t)], ErrInternal)
     IN /\ db' = out.db
        /\ tx' = [tx EXCEPT ![t] = [AfterBody(t, out) EXCEPT
                                      !.http = serviceResponse(out.result)]]
  /\ UNCHANGED <<archived, lock, now, ops>>

FaultNext ==
  \/ \E n \in ApiNames : \E v \in VersionsOf[n] : CreateBegin("t1", n, v, MaxFaultOps)
  \/ CreateLock("t1")
  \/ \E remotes \in RemoteSets : CreateBody("t1", remotes, FALSE)
  \/ \E n \in ApiNames : \E v \in VersionsOf[n] :
       \E body \in Bodies, cred \in Credentials :
         PatchStatusCheck("t1", n, v, body, cred, MaxFaultOps)
  \/ PatchStatusGet("t1")
  \/ PatchStatusLock("t1")
  \/ PatchStatusBody("t1")
  \/ PatchStatusStoreFails("t1")
  \/ \E n \in ApiNames : \E body \in Bodies, cred \in Credentials :
       PatchAllCheck("t1", n, body, cred, MaxFaultOps)
  \/ PatchAllLock("t1")
  \/ PatchAllBody("t1")
  \/ PatchAllStoreFails("t1")
  \/ Finish("t1")

SpecFault == Init /\ [][FaultNext]_vars

\* ------------------------------------------------------------------------
\* Two clients sending status requests concurrently through the handlers
\* ------------------------------------------------------------------------
RaceNext ==
  \E t \in Tx :
    \/ \E n \in ApiNames : \E v \in VersionsOf[n] : CreateBegin(t, n, v, MaxRaceOps)
    \/ CreateLock(t)
    \/ \E remotes \in RemoteSets : CreateBody(t, remotes, FALSE)
    \/ \E n \in ApiNames : \E v \in VersionsOf[n] :
         \E body \in Bodies, cred \in SyncCredentials :
           PatchStatusCheck(t, n, v, body, cred, MaxRaceOps)
    \/ PatchStatusGet(t)
    \/ PatchStatusLock(t)
    \/ PatchStatusBody(t)
    \/ \E n \in ApiNames : \E body \in Bodies, cred \in SyncCredentials :
         PatchAllCheck(t, n, body, cred, MaxRaceOps)
    \/ PatchAllLock(t)
    \/ PatchAllBody(t)
    \/ Finish(t)

SpecRace == Init /\ [][RaceNext]_vars

\* ------------------------------------------------------------------------
\* Concurrent workflows under fair scheduling: a started workflow keeps
\* running, and a workflow waiting for a lock gets it when it is free
\* often enough (the lock manager serves its waiters)
\* ------------------------------------------------------------------------
LiveChanges == {StatusChange(StatusDeprecated, NoMsg)}
LiveVersions == {1}
LiveRemotes == {{}}

LockStepOf(t) ==
  CreateLock(t) \/ UpdateLock(t) \/ StatusLock(t) \/ AllLock(t)

RunStepOf(t) ==
  \/ \E remotes \in LiveRemotes : CreateBody(t, remotes, FALSE)
  \/ \E remotes \in LiveRemotes : UpdateBody(t, remotes, NoStatusChange)
  \/ \E sc \in LiveChanges : StatusBody(t, sc)
  \/ \E sc \in LiveChanges : AllBody(t, sc)
  \/ Finish(t)

LiveNext ==
  \E t \in Tx :
    \/ \E n \in Names : \E v \in LiveVersions : CreateBegin(t, n, v, MaxLiveOps)
    \/ \E n \in Names : \E v \in LiveVersions : UpdateGet(t, n, v, MaxLiveOps)
    \/ \E n \in Names : \E v \in LiveVersions : StatusGet(t, n, v, MaxLiveOps)
    \/ \E n \in Names : AllBegin(t, n, MaxLiveOps)
    \/ LockStepOf(t)
    \/ RunStepOf(t)

SpecLive ==
  /\ Init /\ [][LiveNext]_vars
  /\ \A t \in Tx : SF_vars(LockStepOf(t)) /\ WF_vars(RunStepOf(t))

TypeOK ==
  /\ \A r \in db : r.name \in Names /\ r.version \in Versions \cup LimitVersions
  /\ lock \in [Names -> SUBSET Tx]
  /\ now \in 0..MaxTime
  /\ ops \in 0..(MaxOps + MaxSeqOps + MaxHttpOps + MaxBulkOps + MaxSyncOps + MaxFaultOps + MaxRaceOps + MaxLiveOps)
  /\ archived \in [Names -> 0..maxServerVersionsPerServer]

\* ------------------------------------------------------------------------
\* Properties
\* ------------------------------------------------------------------------
Tables == {db} \cup {View(t) : t \in Tx}
Latest(rows, name) == {r \in RowsOf(rows, name) : r.isLatest}
Live(rows, name) == {r \in RowsOf(rows, name) : r.status # StatusDeleted}

\* Steps of a transaction, as seen in one transition.
BodyStep(t) == tx[t].pc = "body" /\ tx'[t].pc = "finish"
FinishStep(t) == tx[t].pc = "finish" /\ tx'[t].pc = "idle"

\* C1: in the committed table and in every transaction's view of it, every
\* server name has at most one version with isLatest = true.
C1_AtMostOneLatest ==
  \A rows \in Tables : \A n \in Names : Cardinality(Latest(rows, n)) <= 1

\* A publish is about to commit a new latest version and the unmarking of
\* the version that is latest in the committed table.
C1_Witness ==
  \E t \in Tx :
    /\ tx[t].pc = "finish" /\ tx[t].op = "create" /\ tx[t].result = OK
    /\ \E old \in Latest(db, tx[t].name) : old \notin View(t)
    /\ \E new \in Latest(View(t), tx[t].name) : new.version = tx[t].version

\* C2: every name with at least one non-deleted version has exactly one
\* version with isLatest = true, and a name whose versions are all deleted
\* has none.
C2_ExactlyOneLatest ==
  \A n \in Names :
    IF Live(db, n) # {}
      THEN Cardinality(Latest(db, n)) = 1
      ELSE Latest(db, n) = {}

\* C3: a version whose status is deleted has isLatest = false.
C3_DeletedNotLatest ==
  \A r \in db : r.status = StatusDeleted => ~r.isLatest

\* C4: with workflows run one at a time, no remote URL is carried by
\* non-deleted versions of two different server names.
C4_RemoteURLOneName ==
  \A r1, r2 \in db :
    (r1.name # r2.name /\ r1.status # StatusDeleted /\ r2.status # StatusDeleted)
      => r1.remotes \cap r2.remotes = {}

\* C5: a CreateServer transaction never commits a version carrying a remote
\* URL that a non-deleted version of another name carries at that moment, so
\* of two concurrent publishes of one URL under two names at most one commits.
C5_PublishKeepsURLOneName ==
  [][\A t \in Tx :
       (FinishStep(t) /\ tx[t].op = "create" /\ tx[t].result = OK)
         => \A r \in db' :
              (r.name # tx[t].name /\ r.status # StatusDeleted)
                => r.remotes \cap tx[t].remotes = {}]_vars

\* C6: at most one transaction holds the publish lock of a name, and a
\* holder gives the lock up only when its transaction ends.
C6_LockExclusive ==
  /\ [](\A n \in Names : Cardinality(lock[n]) <= 1)
  /\ [][\A n \in Names : \A t \in lock[n] : t \notin lock'[n] => FinishStep(t)]_vars

\* One transaction holds the lock of a name while another waits for it.
C6_Witness ==
  \E n \in Names : \E h, w \in Tx :
    /\ h # w
    /\ h \in lock[n]
    /\ tx[w].pc = "lock" /\ tx[w].name = n

\* C7: no workflow reads or writes the Store before it holds the advisory
\* lock of its name.
C7_LockBeforeStoreAccess ==
  \A t \in Tx : tx[t].touched => t \in lock[tx[t].name]

\* The workflow of t run in one piece, reads included, at the moment t holds
\* the lock and runs its body with the inputs recorded in r.
SerialOutcome(t, r) ==
  LET S == [db |-> db, view |-> View(t)]
      fresh == GetServerByNameAndVersion(View(t), r.name, r.version, TRUE)
  IN CASE r.op = "create" ->
            createServerBody(S, r.name, r.version, r.remotes, r.publishTime,
                             r.result = ErrInternal)
       [] r.op = "update" ->
            IF fresh = NoRow THEN Fail(S, ErrNotFound)
            ELSE updateServerBody(S, r.name, r.version, r.remotes,
                                  r.statusChange, now)
       [] r.op = "status" ->
            IF fresh = NoRow THEN Fail(S, ErrNotFound)
            ELSE updateServerStatusBody(S, fresh, r.name, r.version,
                                        r.statusChange, now)
       [] OTHER ->
            updateAllVersionsStatusBody(S, r.name, r.statusChange, now)

\* C8: the result and the writes of every workflow are those of the same
\* workflow run alone at its place in the lock (commit) order of its name.
C8_SerialPerName ==
  [][\A t \in Tx :
       BodyStep(t) =>
         LET exp == SerialOutcome(t, tx'[t])
         IN /\ tx'[t].result = exp.result
            /\ tx'[t].wrows = {r \in exp.view : r.name \in tx'[t].wnames}
            /\ Written(View(t), exp.view) \subseteq tx'[t].wnames]_vars

\* C9: the committed table changes only by the commit of a workflow that
\* returned no error, which installs all of its writes at once; a workflow
\* that returns an error leaves the table as it was.
C9_AllOrNothing ==
  [][/\ db' # db =>
          \E t \in Tx : FinishStep(t) /\ tx[t].result = OK /\ db' = View(t)
     /\ \A t \in Tx : (FinishStep(t) /\ tx[t].result # OK) => db' = db]_vars

\* A workflow is about to return an error after it wrote to the Store.
C9_Witness ==
  \E t \in Tx :
    /\ tx[t].pc = "finish" /\ tx[t].result # OK
    /\ View(t) # db

\* C10: (name, version) is unique, and a publish of a pair that exists is
\* refused by the duplicate-version check (or by a check that runs before
\* it) and commits nothing.
C10_DuplicateVersionRefused ==
  /\ [](\A rows \in Tables : \A r1, r2 \in rows :
          (r1.name = r2.name /\ r1.version = r2.version) => r1 = r2)
  /\ [][\A t \in Tx :
          /\ (BodyStep(t) /\ tx[t].op = "create"
                /\ CheckVersionExists(View(t), tx[t].name, tx[t].version))
               => tx'[t].result \in {ErrInvalidVersion, ErrRemoteURL,
                                     ErrMaxServersReached}
          /\ (FinishStep(t) /\ tx[t].result = ErrInvalidVersion) => db' = db]_vars

\* A publish of an existing pair has been refused by the duplicate check.
C10_Witness ==
  \E t \in Tx :
    /\ tx[t].pc = "finish" /\ tx[t].op = "create"
    /\ tx[t].result = ErrInvalidVersion
    /\ CheckVersionExists(db, tx[t].name, tx[t].version)

\* C11: no name ever has more versions than the limit, in the committed
\* table or in any transaction's view, and a publish for a name that has
\* reached the limit is refused with the limit error (or by the remote-URL
\* check that runs before it) and writes nothing.
C11_VersionLimit ==
  /\ [](\A rows \in Tables : \A n \in Names :
          CountServerVersions(rows, n) <= maxServerVersionsPerServer)
  /\ [][\A t \in Tx :
          (BodyStep(t) /\ tx[t].op = "create"
             /\ CountServerVersions(View(t), tx[t].name) >= maxServerVersionsPerServer)
            => /\ tx'[t].result \in {ErrMaxServersReached, ErrRemoteURL}
               /\ View(t)' = View(t)
               /\ db' = db]_vars

\* A publish has been refused with the limit error for a name that holds
\* exactly the allowed number of versions, after a concurrent publish of the
\* same name filled the last place.
C11_Witness ==
  \E t \in Tx :
    /\ tx[t].pc = "finish" /\ tx[t].op = "create"
    /\ tx[t].result = ErrMaxServersReached
    /\ CountServerVersions(db, tx[t].name) = maxServerVersionsPerServer
    /\ Cardinality(RowsOf(db, tx[t].name)) = 2
    /\ ~CheckVersionExists(db, tx[t].name, tx[t].version)

\* C12: a successful publish marks the new version latest exactly when the
\* name has no latest version or the new version compares strictly greater
\* than the latest one; if it is marked the old latest version loses the
\* flag, otherwise the old latest version keeps it.
C12_LatestPolicy ==
  [][\A t \in Tx :
       (BodyStep(t) /\ tx[t].op = "create" /\ tx'[t].result = OK) =>
         LET cur == GetCurrentLatestVersion(View(t), tx[t].name)
             new == GetServerByNameAndVersion(View(t)', tx[t].name,
                                              tx[t].version, TRUE)
             marked == \/ cur = NoRow
                       \/ CompareVersions(tx[t].version, cur.version,
                                          tx[t].publishTime, cur.publishedAt) > 0
         IN /\ new # NoRow
            /\ new.isLatest = marked
            /\ cur # NoRow =>
                 GetServerByNameAndVersion(View(t)', cur.name, cur.version, TRUE)
                   = [cur EXCEPT !.isLatest = ~marked]]_vars

\* A publish of an older version is about to commit: the new version is not
\* latest and the latest version keeps the flag.
C12_Witness ==
  \E t \in Tx :
    /\ tx[t].pc = "finish" /\ tx[t].op = "create" /\ tx[t].result = OK
    /\ \E new \in View(t) :
         /\ new.name = tx[t].name /\ new.version = tx[t].version
         /\ ~new.isLatest
    /\ \E old \in Latest(View(t), tx[t].name) : old.version > tx[t].version

\* C13: the version created by a successful publish has status active, no
\* status message, and statusChangedAt, publishedAt and updatedAt all equal
\* to the publish time.
C13_PublishedRow ==
  [][\A t \in Tx :
       (BodyStep(t) /\ tx[t].op = "create" /\ tx'[t].result = OK) =>
         LET new == GetServerByNameAndVersion(View(t)', tx[t].name,
                                              tx[t].version, TRUE)
         IN /\ new # NoRow
            /\ new \notin View(t)
            /\ new.status = StatusActive
            /\ new.msg = NoMsg
            /\ new.statusChangedAt = tx[t].publishTime
            /\ new.publishedAt = tx[t].publishTime
            /\ new.updatedAt = tx[t].publishTime]_vars

\* A publish that took its publish time after the clock advanced is about
\* to commit.
C13_Witness ==
  \E t \in Tx :
    /\ tx[t].pc = "finish" /\ tx[t].op = "create" /\ tx[t].result = OK
    /\ tx[t].publishTime > 0
    /\ \E new \in View(t) \ db : new.publishedAt = tx[t].publishTime

\* C14: validateStatusTransition accepts exactly when the new status is
\* valid, it is not active with a message, and the status or the message
\* (by presence or by value) differs from the current one; otherwise it
\* answers 400, reporting the invalid status first, the message given with
\* active second and the absence of changes last.
C14_TransitionValidator ==
  \A t \in Tx :
    tx[t].pc = "validated" =>
      LET cur == tx[t].currentServer
          req == tx[t].body
          valid == req.status \in ValidStatuses
          activeMessage == req.status = StatusActive /\ req.msg # NoMsg
          differs == req.status # cur.status \/ req.msg # cur.msg
      IN /\ tx[t].result = OK <=> (valid /\ ~activeMessage /\ differs)
         /\ tx[t].result # OK => tx[t].http = StatusBadRequest
         /\ ~valid => tx[t].result = ErrInvalidStatus
         /\ (valid /\ activeMessage) => tx[t].result = ErrActiveMessage
         /\ (valid /\ ~activeMessage /\ ~differs) => tx[t].result = ErrNoChanges

\* The validator has accepted a change of the message alone, from no
\* message to a message.
C14_Witness ==
  \E t \in Tx :
    /\ tx[t].pc = "validated" /\ tx[t].result = OK
    /\ tx[t].currentServer.status = tx[t].body.status
    /\ tx[t].currentServer.msg = NoMsg /\ tx[t].body.msg # NoMsg

\* A step of the single-version status handler: the request checks, and the
\* answer to a request.
PatchCheckStep(t) == tx[t].pc = "idle" /\ tx'[t].op = "patch"
Answered(t, op, http) ==
  FinishStep(t) /\ tx[t].op = op /\ tx[t].http = http

\* C15: a single-version status PATCH that succeeds leaves the version with
\* the status and message of the request, and a PATCH (from a permitted
\* caller) whose status and message are those the version already has is
\* answered 400 by the transition validator and changes nothing; so the
\* same PATCH repeated right after its success is rejected.
C15_RepeatedPatchRejected ==
  [][\A t \in Tx :
       /\ Answered(t, "patch", StatusOK) =>
            LET row == GetServerByNameAndVersion(db', tx[t].name, tx[t].version, TRUE)
            IN row.status = tx[t].body.status /\ row.msg = tx[t].body.msg
       /\ PatchCheckStep(t) =>
            LET row == GetServerByNameAndVersion(db, tx'[t].name, tx'[t].version, TRUE)
                req == tx'[t].body
            IN (/\ row # NoRow
                /\ row.status = req.status /\ row.msg = req.msg
                /\ tx'[t].http \notin {StatusUnauthorized, StatusForbidden})
                 => /\ tx'[t].pc = "finish"
                    /\ tx'[t].http = StatusBadRequest
                    /\ tx'[t].result \in {ErrNoChanges, ErrActiveMessage}
       /\ Answered(t, "patch", StatusBadRequest) => db' = db]_vars

\* A PATCH to deprecated with a message has been rejected as a repetition:
\* the version already has that status and message.
C15_Witness ==
  \E t \in Tx :
    /\ tx[t].pc = "finish" /\ tx[t].op = "patch"
    /\ tx[t].result = ErrNoChanges /\ tx[t].http = StatusBadRequest
    /\ tx[t].body = Body(StatusDeprecated, "m")
    /\ \E row \in db :
         /\ row.name = tx[t].name /\ row.version = tx[t].version
         /\ row.status = StatusDeprecated /\ row.msg = "m"

PatchAllCheckStep(t) == tx[t].pc = "idle" /\ tx'[t].op = "patchall"

StatusTargets(t, rows) ==
  {r \in RowsOf(rows, tx[t].name) :
     tx[t].op = "patchall" \/ r.version = tx[t].version}

\* C17: a successful status write (single version or all versions) sets
\* updatedAt of every version it writes to the time of the write, and sets
\* statusChangedAt to that time exactly when the new status differs from the
\* status the version had; otherwise statusChangedAt keeps its value, so a
\* change of the message alone leaves it.
C17_StatusTimestamps ==
  [][\A t \in Tx :
       (BodyStep(t) /\ tx[t].op \in {"patch", "patchall"} /\ tx'[t].result = OK) =>
         \A old \in StatusTargets(t, View(t)) :
           LET new == GetServerByNameAndVersion(View(t)', old.name, old.version, TRUE)
           IN /\ new # NoRow
              /\ new.updatedAt = now
              /\ new.statusChangedAt =
                   IF old.status # tx[t].statusChange.newStatus
                     THEN now ELSE old.statusChangedAt]_vars

\* A change of the message alone, made after the clock advanced, is about to
\* commit: statusChangedAt is the old one and updatedAt is later.
C17_Witness ==
  \E t \in Tx :
    /\ tx[t].pc = "finish" /\ tx[t].op = "patch" /\ tx[t].result = OK
    /\ \E old \in db : \E new \in View(t) :
         /\ old.name = new.name /\ old.version = new.version
         /\ old.status = new.status /\ old.msg # new.msg
         /\ new.statusChangedAt = old.statusChangedAt
         /\ new.updatedAt > old.updatedAt
         /\ new.statusChangedAt < new.updatedAt

\* C18: every version, committed or in a transaction's view, has
\* statusChangedAt >= publishedAt, and an insert of a row whose
\* statusChangedAt is strictly earlier than its publishedAt is rejected and
\* stores nothing, while one with equal timestamps is not rejected for them.
C18_StatusChangedAfterPublished ==
  /\ [](\A rows \in Tables : \A r \in rows : r.statusChangedAt >= r.publishedAt)
  /\ [][\A t \in Tx :
          tx'[t].op = "insert" =>
            LET row == tx'[t].meta
            IN /\ row.statusChangedAt < row.publishedAt =>
                    tx'[t].result # OK /\ db' = db
               /\ (row.statusChangedAt >= row.publishedAt /\ RowsOf(db, row.name) = {}) =>
                    tx'[t].result = OK /\ db' = db \cup {row}]_vars

\* An insert of version 1 with statusChangedAt before publishedAt has been
\* rejected, and the version is not stored.
C18_Witness ==
  \E t \in Tx :
    /\ tx[t].op = "insert" /\ tx[t].result = ErrInvalidInput
    /\ tx[t].meta.statusChangedAt < tx[t].meta.publishedAt
    /\ RowsOf(db, tx[t].meta.name) = {}

\* C19: a successful edit without a status change replaces the descriptor
\* of the target version and sets its updatedAt to the time of the edit,
\* and leaves its status, statusMessage, statusChangedAt, publishedAt and
\* isLatest as they were.
C19_EditPreservesStatus ==
  [][\A t \in Tx :
       (/\ BodyStep(t) /\ tx[t].op = "update" /\ tx'[t].result = OK
        /\ ~tx'[t].statusChange.present) =>
         LET old == GetServerByNameAndVersion(View(t), tx[t].name, tx[t].version, TRUE)
             new == GetServerByNameAndVersion(View(t)', tx[t].name, tx[t].version, TRUE)
         IN /\ old # NoRow /\ new # NoRow
            /\ new.remotes = tx'[t].remotes
            /\ new.updatedAt = now
            /\ new.status = old.status
            /\ new.msg = old.msg
            /\ new.statusChangedAt = old.statusChangedAt
            /\ new.publishedAt = old.publishedAt
            /\ new.isLatest = old.isLatest]_vars

\* An edit of a deprecated version that has a message, made after the clock
\* advanced and giving it other remotes, is about to commit.
C19_Witness ==
  \E t \in Tx :
    /\ tx[t].pc = "finish" /\ tx[t].op = "update" /\ tx[t].result = OK
    /\ ~tx[t].statusChange.present
    /\ \E old \in db : \E new \in View(t) :
         /\ old.name = tx[t].name /\ old.version = tx[t].version
         /\ new.name = old.name /\ new.version = old.version
         /\ old.status = StatusDeprecated /\ old.msg # NoMsg
         /\ new.remotes # old.remotes
         /\ new.updatedAt > old.updatedAt
         /\ new.statusChangedAt = old.statusChangedAt

\* The names with a version whose isLatest flag differs between two tables.
LatestChanged(old, new) ==
  {r.name : r \in {x \in old : \E y \in new :
                     /\ y.name = x.name /\ y.version = x.version
                     /\ y.isLatest # x.isLatest}}

\* C20: the isLatest flag of a committed version changes only at the commit
\* of a publish of the same name, and no edit (with or without a status
\* change), single-version status change or all-versions status change
\* changes the isLatest flag of any version it sees.
C20_LatestOnlyByPublish ==
  [][/\ \A n \in LatestChanged(db, db') :
          \E t \in Tx :
            /\ FinishStep(t) /\ tx[t].op = "create" /\ tx[t].name = n
            /\ tx[t].result = OK
     /\ \A t \in Tx :
          (BodyStep(t) /\ tx[t].op # "create") =>
            LatestChanged(View(t), View(t)') = {}]_vars

\* An edit that sets the latest version of a name to deleted is about to
\* commit, and the version is still the latest.
C20_Witness ==
  \E t \in Tx :
    /\ tx[t].pc = "finish" /\ tx[t].op = "update" /\ tx[t].result = OK
    /\ tx[t].statusChange = StatusChange(StatusDeleted, NoMsg)
    /\ \E old \in db : \E new \in View(t) :
         /\ old.name = tx[t].name /\ old.version = tx[t].version
         /\ new.name = old.name /\ new.version = old.version
         /\ old.status # StatusDeleted /\ new.status = StatusDeleted
         /\ old.isLatest /\ new.isLatest

\* A step of the edit handler: the request checks.
EditCheckStep(t) == tx[t].pc = "idle" /\ tx'[t].op = "edit"

\* The (name, version) pairs stored in a table.
Keys(rows) == {<<r.name, r.version>> : r \in rows}

\* C21: an edit of an existing (name, version) by a caller allowed to edit
\* it, whose body carries another name or another version, is answered 400
\* without calling the service and changes nothing; and no step of an edit
\* adds, removes or changes the (name, version) of a stored row.
C21_EditCannotRename ==
  [][\A t \in Tx :
       /\ (/\ EditCheckStep(t)
           /\ \/ tx'[t].meta.name # tx'[t].name
              \/ tx'[t].meta.version # tx'[t].version
           /\ tx'[t].http \notin {StatusUnauthorized, StatusForbidden, StatusNotFound})
            => /\ tx'[t].pc = "finish"
               /\ tx'[t].http = StatusBadRequest
               /\ tx'[t].result =
                    IF tx'[t].meta.name # tx'[t].name
                      THEN ErrRename ELSE ErrVersionMismatch
       /\ Answered(t, "edit", StatusBadRequest) => db' = db
       /\ tx[t].op = "edit" =>
            /\ Keys(db') = Keys(db)
            /\ Keys(View(t)') = Keys(View(t))]_vars

\* An edit of a stored version whose body carries another name has been
\* refused as a rename.
C21_Witness ==
  \E t \in Tx :
    /\ tx[t].pc = "finish" /\ tx[t].op = "edit"
    /\ tx[t].result = ErrRename /\ tx[t].http = StatusBadRequest
    /\ tx[t].meta.name # tx[t].name
    /\ <<tx[t].name, tx[t].version>> \in Keys(db)

\* The remote URLs of row r that non-deleted versions of other names carry
\* in the table rows.
ConflictingURLs(rows, r) ==
  {u \in r.remotes :
     \E c \in rows : c.name # r.name /\ c.status # StatusDeleted /\ u \in c.remotes}

\* C22: a single-version status change to active of a version that is
\* deleted when the change is written fails and leaves the version deleted
\* whenever one of the version's remote URLs is carried by a non-deleted
\* version of another name, and succeeds when none is.
C22_RestoreChecksRemoteURLs ==
  [][\A t \in Tx :
       (BodyStep(t) /\ tx[t].op = "status"
          /\ tx'[t].statusChange.newStatus = StatusActive) =>
         LET old == GetServerByNameAndVersion(View(t), tx[t].name, tx[t].version, TRUE)
             new == GetServerByNameAndVersion(View(t)', tx[t].name, tx[t].version, TRUE)
         IN (old # NoRow /\ old.status = StatusDeleted) =>
              IF ConflictingURLs(View(t), old) # {}
                THEN tx'[t].result # OK /\ new = old
                ELSE tx'[t].result = OK /\ new.status = StatusActive]_vars

\* C23: an all-versions status change to active fails and changes no
\* version whenever a deleted version of the name carries a remote URL that
\* a non-deleted version of another name carries, however many versions the
\* name has.
C23_BulkRestoreChecksEveryVersion ==
  [][\A t \in Tx :
       (/\ BodyStep(t) /\ tx[t].op = "all"
        /\ tx'[t].statusChange.newStatus = StatusActive
        /\ CountServerVersions(View(t), tx[t].name) <= maxServerVersionsPerServer
        /\ \E r \in RowsOf(View(t), tx[t].name) :
             r.status = StatusDeleted /\ ConflictingURLs(View(t), r) # {})
         => /\ tx'[t].result # OK
            /\ View(t)' = View(t)]_vars

\* C24: an all-versions status request that succeeds leaves every version
\* of the name, deleted ones and ones already at the target included, with
\* the status and message of the request, and reports an UpdatedCount equal
\* to the number of versions of the name; one that fails changes no version.
C24_BulkUpdatesEveryVersion ==
  [][\A t \in Tx :
       (BodyStep(t) /\ tx[t].op = "patchall") =>
         IF tx'[t].result = OK
           THEN /\ tx'[t].http = StatusOK
                /\ RowsOf(View(t), tx[t].name) # {}
                /\ Keys(View(t)') = Keys(View(t))
                /\ \A r \in RowsOf(View(t)', tx[t].name) :
                     r.status = tx[t].body.status /\ r.msg = tx[t].body.msg
                /\ tx'[t].updatedCount = Cardinality(RowsOf(View(t), tx[t].name))
           ELSE /\ tx'[t].http # StatusOK
                /\ View(t)' = View(t)]_vars

\* An all-versions request to deprecated with a message is about to commit
\* on a name with two versions, one of them deleted.
C24_Witness ==
  \E t \in Tx :
    /\ tx[t].pc = "finish" /\ tx[t].op = "patchall" /\ tx[t].result = OK
    /\ tx[t].body = Body(StatusDeprecated, "m")
    /\ tx[t].updatedCount = 2
    /\ \E r \in RowsOf(db, tx[t].name) : r.status = StatusDeleted
    /\ \A r \in RowsOf(View(t), tx[t].name) :
         r.status = StatusDeprecated /\ r.msg = "m"

\* C25: validateBulkStatusTransition accepts a list of versions and a
\* request exactly when validateStatusTransition accepts the request for at
\* least one version of the list, and otherwise (the empty list included)
\* rejects with the message that there are no changes to apply.
C25_BulkValidator ==
  \A t \in Tx :
    (tx[t].pc = "validated" /\ tx[t].op = "validatebulk") =>
      LET versions == RowsOf(db, tx[t].name)
          accepted == \E version \in versions :
                        validateStatusTransition(version, tx[t].body.status,
                                                 tx[t].body) = OK
      IN /\ tx[t].result = OK <=> accepted
         /\ ~accepted => /\ tx[t].result = ErrNoBulkChanges
                         /\ tx[t].http = StatusBadRequest

\* C26: an all-versions status request (from an authenticated caller) for a
\* name that has no versions is answered 404 'Server not found', and a
\* single-version status request for a (name, version) that is not stored
\* is answered 404 'Server version not found'; neither calls the service,
\* and the table is as it was when the answer is given.
C26_StatusNotFound ==
  [][\A t \in Tx :
       /\ (/\ PatchAllCheckStep(t)
           /\ RowsOf(db, tx'[t].name) = {}
           /\ tx'[t].http # StatusUnauthorized)
            => /\ tx'[t].pc = "finish"
               /\ tx'[t].http = StatusNotFound
               /\ tx'[t].result = ErrServerNotFound
       /\ (/\ PatchCheckStep(t)
           /\ <<tx'[t].name, tx'[t].version>> \notin Keys(db)
           /\ tx'[t].http # StatusUnauthorized)
            => /\ tx'[t].pc = "finish"
               /\ tx'[t].http = StatusNotFound
               /\ tx'[t].result = ErrVersionNotFound
       /\ (Answered(t, "patchall", StatusNotFound) \/ Answered(t, "patch", StatusNotFound))
            => db' = db /\ ~tx[t].touched]_vars

\* An all-versions status request for a name without versions has been
\* answered 404 while another name has versions.
C26_Witness ==
  \E t \in Tx :
    /\ tx[t].pc = "finish" /\ tx[t].op = "patchall"
    /\ tx[t].http = StatusNotFound /\ tx[t].result = ErrServerNotFound
    /\ RowsOf(db, tx[t].name) = {}
    /\ db # {}

\* C27: for a request with a valid token on a stored server, the status
\* handlers answer 403 exactly when the token carries neither the publish
\* nor the edit permission for the server, and the edit handler answers 403
\* exactly when it does not carry the edit permission; a request answered
\* 403 has not called the service and leaves the table as it was.
C27_PermissionRequired ==
  [][\A t \in Tx : \A cred \in Credentials :
       (cred.bearer /\ cred.valid) =>
         /\ (/\ PatchCheckStep(t)
             /\ PatchStatusCheck(t, tx'[t].name, tx'[t].version, tx'[t].body,
                                 cred, MaxHttpOps)
             /\ <<tx'[t].name, tx'[t].version>> \in Keys(db))
              => (tx'[t].http = StatusForbidden
                    <=> cred.permissions
                          \cap {PermissionActionPublish, PermissionActionEdit} = {})
         /\ (/\ PatchAllCheckStep(t)
             /\ PatchAllCheck(t, tx'[t].name, tx'[t].body, cred, MaxHttpOps)
             /\ GetServerByName(db, tx'[t].name, TRUE) # NoRow)
              => (tx'[t].http = StatusForbidden
                    <=> cred.permissions
                          \cap {PermissionActionPublish, PermissionActionEdit} = {})
         /\ (/\ EditCheckStep(t)
             /\ EditCheck(t, tx'[t].name, tx'[t].version, tx'[t].meta,
                          cred, MaxHttpOps)
             /\ <<tx'[t].name, tx'[t].version>> \in Keys(db))
              => (tx'[t].http = StatusForbidden
                    <=> PermissionActionEdit \notin cred.permissions)
         /\ (\E op \in {"patch", "patchall", "edit"} : Answered(t, op, StatusForbidden))
              => db' = db /\ ~tx[t].touched]_vars

\* A status request on a stored version has been answered 403.
C27_Witness ==
  \E t \in Tx :
    /\ tx[t].pc = "finish" /\ tx[t].op = "patch"
    /\ tx[t].http = StatusForbidden /\ tx[t].result = ErrForbidden
    /\ <<tx[t].name, tx[t].version>> \in Keys(db)
    /\ ~tx[t].touched

\* C28: a status request (from a permitted caller) that moves a stored
\* version from its status to another of active, deprecated and deleted is
\* accepted by the handler unless it asks for active with a message, and the
\* service then writes the new status unless the version is restored from
\* deleted to active while another name carries one of its remote URLs; so
\* no status, deleted included, is terminal.
C28_NoTerminalStatus ==
  [][\A t \in Tx :
       /\ PatchCheckStep(t) =>
            LET row == GetServerByNameAndVersion(db, tx'[t].name, tx'[t].version, TRUE)
                req == tx'[t].body
            IN (/\ row # NoRow
                /\ req.status \in ValidStatuses /\ req.status # row.status
                /\ ~(req.status = StatusActive /\ req.msg # NoMsg)
                /\ tx'[t].http \notin {StatusUnauthorized, StatusForbidden})
                 => tx'[t].pc = "call" /\ tx'[t].http = NoResponse
       /\ (BodyStep(t) /\ tx[t].op = "patch") =>
            LET old == GetServerByNameAndVersion(View(t), tx[t].name, tx[t].version, TRUE)
                new == GetServerByNameAndVersion(View(t)', tx[t].name, tx[t].version, TRUE)
                req == tx[t].body
            IN req.status # old.status =>
                 IF /\ old.status = StatusDeleted /\ req.status = StatusActive
                    /\ ConflictingURLs(View(t), old) # {}
                   THEN tx'[t].result = ErrRemoteURL /\ new = old
                   ELSE /\ tx'[t].result = OK /\ tx'[t].http = StatusOK
                        /\ new.status = req.status]_vars

\* A status request is about to commit that brings a deleted version back
\* to active.
C28_Witness ==
  \E t \in Tx :
    /\ tx[t].pc = "finish" /\ tx[t].op = "patch" /\ tx[t].result = OK
    /\ \E old \in db : \E new \in View(t) :
         /\ old.name = tx[t].name /\ old.version = tx[t].version
         /\ new.name = old.name /\ new.version = old.version
         /\ old.status = StatusDeleted /\ new.status = StatusActive

\* The predicates of a filter other than IncludeDeleted, one by one.
OtherPredicates(r, f) ==
  /\ f.name # NoFilter => r.name = f.name
  /\ f.substringName # Nil => \E sub \in f.substringName : Contains(r.name, sub)
  /\ f.version # Nil => r.version \in f.version
  /\ f.remoteURL # NoFilter => f.remoteURL \in r.remotes
  /\ f.isLatest # Nil => r.isLatest \in f.isLatest
  /\ f.updatedSince # Nil => \E since \in f.updatedSince : r.updatedAt > since

\* C29: a listing whose filter has IncludeDeleted false or nil returns no
\* deleted version; every row a listing returns is stored and satisfies
\* every other predicate of the filter; and, when they fit in the limit, the
\* listing returns exactly the stored rows that satisfy every other
\* predicate and are not deleted or, with IncludeDeleted true, the deleted
\* ones among them as well.
C29_IncludeDeleted ==
  \A t \in Tx :
    tx[t].op = "list" =>
      LET f == tx[t].query
          res == tx[t].listing
          all == {r \in db : OtherPredicates(r, f)}
          want == IF f.includeDeleted = {TRUE} THEN all
                  ELSE {r \in all : r.status # StatusDeleted}
      IN /\ f.includeDeleted # {TRUE} => \A r \in res : r.status # StatusDeleted
         /\ res \subseteq all
         /\ Cardinality(want) <= tx[t].limit => res = want

\* A listing with IncludeDeleted true, a version and an isLatest predicate
\* returned a deleted version and left out a stored version that fails one
\* of the other predicates.
C29_Witness ==
  \E t \in Tx :
    /\ tx[t].op = "list"
    /\ tx[t].query.includeDeleted = {TRUE}
    /\ tx[t].query.version # Nil /\ tx[t].query.isLatest # Nil
    /\ \E r \in tx[t].listing : r.status = StatusDeleted
    /\ \E r \in db \ tx[t].listing : r.status = StatusDeleted

ListRequestStep(t) == tx[t].pc = "idle" /\ tx'[t].op = "listreq"

C31_CursorPagination ==
  \A t \in Tx :
    tx[t].op = "page" =>
      LET e == tx[t].emitted
          f == tx[t].query
          want == {r \in db : /\ OtherPredicates(r, f)
                              /\ (f.includeDeleted = {TRUE} \/ r.status # StatusDeleted)}
          got == {e[i] : i \in 1..Len(e)}
      IN /\ \A i, j \in 1..Len(e) : i < j => RowLess(e[i], e[j])
         /\ got \subseteq want
         /\ \A r \in want \ got : Len(e) > 0 /\ RowLess(e[Len(e)], r)
         /\ tx[t].cursor = NoCursor => got = want
         /\ tx[t].cursor # NoCursor =>
              /\ Len(e) > 0 /\ tx[t].cursor = CursorOf(e[Len(e)])
              /\ want \ got # {}

\* A listing of three rows in pages of two has ended after its second page.
C31_Witness ==
  \E t \in Tx :
    /\ tx[t].op = "page" /\ tx[t].pc = "finish"
    /\ tx[t].limit = 2 /\ Len(tx[t].emitted) = 3

ValidationErrors ==
  {ErrStatusRequired, ErrCmdInvalidStatus, ErrNameRequired, ErrVersionRequired}

\* C32: once the status command has looked at its arguments (and the flag
\* parser did not exit), it has returned '--status flag is required' when
\* the status is empty or missing, else 'invalid status' when it is not
\* active, deprecated or deleted, else 'server name is required' when no
\* positional argument is left, else 'version is required' when there is no
\* second positional argument and --all-versions is not set, and goes on
\* otherwise; a command refused this way has neither read the token file
\* nor contacted the registry.
C32_StatusCommandValidation ==
  \A t \in Tx :
    (tx[t].op = "statuscmd" /\ tx[t].pc # "cmd") =>
      LET fs == ParseFlags(tx[t].args, NewFlagSet)
          refused == tx[t].pc = "done" /\ tx[t].result \in ValidationErrors
          passed == tx[t].pc \in {"token", "send"} \/ tx[t].tokenRead
      IN ~fs.exit =>
           /\ refused \/ passed
           /\ fs.status = "" => refused /\ tx[t].result = ErrStatusRequired
           /\ (fs.status # "" /\ fs.status \notin ValidStatuses)
                => refused /\ tx[t].result = ErrCmdInvalidStatus
           /\ (fs.status \in ValidStatuses /\ Len(fs.rest) = 0)
                => refused /\ tx[t].result = ErrNameRequired
           /\ (fs.status \in ValidStatuses /\ Len(fs.rest) = 1)
                => (refused <=> ~fs.allVersions)
           /\ (refused /\ tx[t].result = ErrVersionRequired)
                => ~fs.allVersions /\ Len(fs.rest) = 1
           /\ (fs.status \in ValidStatuses /\ Len(fs.rest) >= 2) => passed
           /\ refused => ~tx[t].tokenRead /\ ~tx[t].contacted

\* The command was run with --all-versions and a server name only, passed
\* its validation and contacted the registry.
C32_Witness ==
  \E t \in Tx :
    /\ tx[t].op = "statuscmd" /\ tx[t].contacted
    /\ LET fs == ParseFlags(tx[t].args, NewFlagSet)
       IN fs.allVersions /\ Len(fs.rest) = 1

\* C33: a status request (single version or all versions) whose Store write
\* failed with an internal error is answered with 500.
C33_InternalIs500 ==
  \A t \in Tx :
    (/\ tx[t].pc = "finish" /\ tx[t].op \in {"patch", "patchall"}
     /\ tx[t].result = ErrInternal)
      => tx[t].http = StatusInternalServerError

\* The URLs the remote-URL check of the body step of t looks up: those of
\* the new descriptor for a publish or an edit, those of the version read
\* for a restore, those of every deleted version for an all-versions restore.
CheckedURLs(t) ==
  IF tx[t].op = "create" THEN tx'[t].remotes
  ELSE IF tx[t].op = "edit" THEN tx[t].meta.remotes
  ELSE IF tx[t].op = "patch"
    THEN IF /\ tx[t].currentServer.status = StatusDeleted
            /\ tx[t].statusChange.newStatus = StatusActive
           THEN tx[t].currentServer.remotes ELSE {}
  ELSE IF tx[t].op = "patchall" /\ tx[t].statusChange.newStatus = StatusActive
    THEN UNION {r.remotes : r \in {q \in RowsOf(View(t), tx[t].name) :
                                     q.status = StatusDeleted}}
  ELSE {}

\* C34: a publish, an edit or a restore is refused by the remote-URL check
\* exactly when a non-deleted version of a different name carries one of
\* the URLs checked; versions of the same name carrying the URL never make
\* it fail.
C34_SameNameNeverConflicts ==
  [][\A t \in Tx :
       (BodyStep(t) /\ tx[t].op \in {"create", "edit", "patch", "patchall"}) =>
         LET conflict ==
               \E u \in CheckedURLs(t) : \E r \in View(t) :
                 /\ u \in r.remotes /\ r.status # StatusDeleted
                 /\ r.name # tx[t].name
         IN (tx'[t].result = ErrRemoteURL) <=> conflict]_vars

\* A publish is about to commit with a URL that another, non-deleted
\* version of the same name carries.
C34_Witness ==
  \E t \in Tx :
    /\ tx[t].pc = "finish" /\ tx[t].op = "create" /\ tx[t].result = OK
    /\ \E u \in tx[t].remotes : \E r \in db :
         /\ r.name = tx[t].name /\ r.version # tx[t].version
         /\ u \in r.remotes /\ r.status # StatusDeleted

\* C35: a publish or an edit whose URLs are carried, among the versions of
\* other names, by deleted versions only is not refused by the remote-URL
\* check; such a publish of a new version succeeds.
C35_DeletedDoNotBlock ==
  [][\A t \in Tx :
       (BodyStep(t) /\ tx[t].op \in {"create", "edit"}) =>
         LET remotes == tx'[t].remotes
             others == {r \in View(t) : /\ r.name # tx[t].name
                                        /\ r.remotes \cap remotes # {}}
         IN (others # {} /\ \A r \in others : r.status = StatusDeleted) =>
              /\ tx'[t].result # ErrRemoteURL
              /\ (/\ tx[t].op = "create"
                  /\ ~CheckVersionExists(View(t), tx[t].name, tx[t].version))
                   => /\ tx'[t].result = OK
                      /\ \E new \in View(t)' :
                           /\ new.name = tx[t].name /\ new.version = tx[t].version
                           /\ new.remotes = remotes]_vars

\* A publish is about to commit with a URL that a deleted version of
\* another name carries.
C35_Witness ==
  \E t \in Tx :
    /\ tx[t].pc = "finish" /\ tx[t].op = "create" /\ tx[t].result = OK
    /\ \E u \in tx[t].remotes : \E r \in db :
         r.name # tx[t].name /\ u \in r.remotes /\ r.status = StatusDeleted

\* C36: whenever UpdateServerStatus writes the status active on a version
\* that is deleted at the moment of the write, it has run the remote-URL
\* check, that is, it took the branch for a deleted current version, and a
\* write of active on a deleted version one of whose URLs another name
\* carries never succeeds.
C36_RestoreCheckedAtWrite ==
  [][\A t \in Tx :
       (/\ BodyStep(t) /\ tx[t].op = "status"
        /\ tx'[t].statusChange.newStatus = StatusActive) =>
         LET old == GetServerByNameAndVersion(View(t), tx[t].name, tx[t].version, TRUE)
         IN (old # NoRow /\ old.status = StatusDeleted) =>
              /\ needsRemoteCheck(tx[t].currentServer, StatusActive)
              /\ ConflictingURLs(View(t), old) # {} => tx'[t].result # OK]_vars

\* C37: a status request answered with success has changed, at the moment
\* its write was applied, the status or the message of at least one of the
\* versions it targets.
C37_SuccessMeansChange ==
  [][\A t \in Tx :
       (/\ BodyStep(t) /\ tx[t].op \in {"patch", "patchall"}
        /\ tx'[t].http = StatusOK) =>
         \E old \in View(t) : \E new \in View(t)' :
           /\ old.name = tx[t].name /\ new.name = old.name
           /\ new.version = old.version
           /\ tx[t].op = "patch" => old.version = tx[t].version
           /\ (new.status # old.status \/ new.msg # old.msg)]_vars

\* C38: an edit or a single-version status change addressed to
\* (name, version) writes no other row, in its transaction and at its
\* commit, and adds and removes none; a status change, on one version or on
\* all versions, leaves the remotes and publishedAt of every row unchanged.
C38_FrameEffect ==
  [][\A t \in Tx :
       /\ (BodyStep(t) /\ tx[t].op \in {"edit", "patch"}) =>
            /\ \A r \in View(t) :
                 (r.name # tx[t].name \/ r.version # tx[t].version)
                   => r \in View(t)'
            /\ Keys(View(t)') = Keys(View(t))
       /\ (FinishStep(t) /\ tx[t].op \in {"edit", "patch"}) =>
            /\ \A r \in db :
                 (r.name # tx[t].name \/ r.version # tx[t].version) => r \in db'
            /\ Keys(db') = Keys(db)
       /\ (BodyStep(t) /\ tx[t].op \in {"patch", "patchall"}) =>
            /\ Keys(View(t)') = Keys(View(t))
            /\ \A old \in View(t) : \E new \in View(t)' :
                 /\ new.name = old.name /\ new.version = old.version
                 /\ new.remotes = old.remotes
                 /\ new.publishedAt = old.publishedAt]_vars

\* A single-version status change is about to commit on a name that has
\* another version, and a version of another name is stored.
C38_Witness ==
  \E t \in Tx :
    /\ tx[t].pc = "finish" /\ tx[t].op = "patch" /\ tx[t].result = OK
    /\ \E r \in db : r.name = tx[t].name /\ r.version = tx[t].version
                     /\ r \notin View(t)
    /\ \E r \in db : r.name = tx[t].name /\ r.version # tx[t].version
    /\ \E r \in db : r.name # tx[t].name

\* C39: a workflow holds no lock but that of its own name, takes it once
\* and keeps it until its transaction ends; and, under fair scheduling,
\* every workflow waiting for its lock eventually holds it and eventually
\* ends, with a commit or a rollback.
C39_NoDeadlock ==
  /\ [](\A t \in Tx : \A n \in Names :
          t \in lock[n] => n = tx[t].name /\ tx[t].pc \in {"body", "finish"})
  /\ [][\A t \in Tx : \A n \in Names :
          (t \in lock[n] /\ tx'[t].pc # "idle") => t \in lock'[n]]_vars
  /\ \A t \in Tx : (tx[t].pc = "lock") ~> (tx[t].pc = "body")
  /\ \A t \in Tx : (tx[t].pc = "lock") ~> (tx[t].pc = "idle")

\* A workflow waits for the lock of a name while another workflow, which
\* holds it, is about to end its transaction.
C39_Witness ==
  \E n \in Names : \E h, w \in Tx :
    /\ h # w
    /\ h \in lock[n] /\ tx[h].pc = "finish"
    /\ tx[w].pc = "lock" /\ tx[w].name = n

====
